---- MODULE Spec2Model ----
(***************************************************************************)
(* Model of vm-manager: the VM lifecycle controller (core/vm_controller.py)*)
(* driving a libvirt hypervisor, the hot pool (core/pool_manager.py) and   *)
(* the REST handlers of main.py.                                           *)
(*                                                                         *)
(* Every REST handler is a synchronous function run on a worker thread, so *)
(* a request is modelled as a thread that walks through the handler one    *)
(* hypervisor / file-system call at a time.  Between two such calls the    *)
(* guest, another thread or an administrator may act.  Every libvirt call  *)
(* except lookupByName may raise libvirtError; lookupByName raises exactly *)
(* when no domain of that name exists.                                     *)
(***************************************************************************)
EXTENDS Integers, Sequences, FiniteSets, TLC

\* ------------------------------------------------------------ constants

\* libvirt power-state codes, as listed in start_vm
VIR_DOMAIN_NOSTATE == 0
VIR_DOMAIN_RUNNING == 1
VIR_DOMAIN_BLOCKED == 2
VIR_DOMAIN_PAUSED == 3
VIR_DOMAIN_SHUTDOWN == 4
VIR_DOMAIN_SHUTOFF == 5
VIR_DOMAIN_CRASHED == 6
VIR_DOMAIN_PMSUSPENDED == 7

PowerStates == VIR_DOMAIN_NOSTATE .. VIR_DOMAIN_PMSUSPENDED

\* stop_vm's polling policy
timeout_sec == 15
interval == 1

\* the pool size (settings.HOT_VM_POOL_SIZE) and the slot names pool-vm-<idx>
HOT_VM_POOL_SIZE == 2
PoolNameTable == <<"pool-vm-1", "pool-vm-2", "pool-vm-3", "pool-vm-4">>
PoolName(idx) == PoolNameTable[idx]
PoolNames == {PoolName(i) : i \in 1 .. HOT_VM_POOL_SIZE}

\* names used by REST clients, and all names known to the model
LabNames == {"lab1"}
Names == LabNames \cup PoolNames

\* worker threads serving requests
Threads == {"t1", "t2"}

\* ------------------------------------------------------------ state

VARIABLES
    dom,        \* hypervisor: name -> domain record (NoDomain when undefined)
    disk,       \* VM_STORAGE_PATH/<name>.qcow2 exists
    base,       \* BASE_IMAGE_PATH exists
    pool,       \* PoolManager.pool: the slot names appended by init_pool
    pc,         \* thread -> position in the handler it runs
    op,         \* thread -> the request it serves
    ctx,        \* thread -> caller of the controller method it is in
    name,       \* thread -> the VM name it works on
    idx,        \* thread -> position in the pool loop
    waited,     \* thread -> stop_vm's `waited`
    issued,     \* thread -> calls issued by the current request
    result,     \* thread -> outcome of the request
    seen,       \* thread -> last power state read by the request (-1: none)
    after,      \* thread -> the request began right after a successful stop
    failed,     \* thread -> slots whose attempt raised in get_available_vm
    stopped     \* name -> how the last stop returned successfully ("noop",
                \* "poll", "destroy", "destroy transient"), "no" once anything
                \* else has touched the VM since

\* the terminal session of /ws/vm/{name}/terminal
VARIABLES
    session,    \* position of the vm_terminal handler
    websocket,  \* the client's channel: "none", "open", "gone", "closed"
    conn,       \* the upstream SSH connection: "none", "open", "eof", "closed"
    f_open,     \* the recording file f is open
    log_file,   \* the records written to the recording, in file order
    proxy_in,   \* task _proxy_websocket_to_ssh
    proxy_out,  \* task _proxy_ssh_to_websocket
    forwarded,  \* the chunks handed on to the other side
    received,   \* source -> number of chunks that have arrived from it
    now,        \* the wall clock time.time() reads
    active,     \* the gauge SSH_SESSIONS_ACTIVE of the session's labels
    connect_error,  \* why asyncssh.connect failed: "none", "auth", "unreachable"
    error_sent  \* the SSH error text has been sent to the client

\* the credential store (AnsibleAuthManager) and the provisioning step
VARIABLES
    password,   \* AnsibleAuthManager._password
    lock,       \* AnsibleAuthManager._lock: "free" or the caller holding it
    apc,        \* caller -> position in the call it makes
    aarg,       \* caller -> the argument of its call
    become_password,  \* caller -> configure_vm_with_ansible's become_password
    history,    \* the writes to _password, in the order they took effect
    aret,       \* caller -> number of writes in effect when it read _password
    launch_log, \* the events logged when a playbook is launched
    launch_log_other    \* the same events of the run in which the other
                \* credential value is stored

\* the status stream of /ws/vm/{name}/status
VARIABLES
    stream,     \* position of the vm_status_stream handler
    status_ws,  \* the client's channel: "none", "open", "gone", "closed"
    pushed,     \* number of states sent to the client
    status_log  \* the events the handler has logged

vars == <<dom, disk, base, pool, pc, op, ctx, name, idx, waited, issued,
          result, seen, after, failed, stopped,
          session, websocket, conn, f_open, log_file, proxy_in, proxy_out,
          forwarded, received, now, active, connect_error, error_sent,
          password, lock, apc, aarg, become_password, history, aret,
          launch_log, launch_log_other,
          stream, status_ws, pushed, status_log>>

\* the variables of the lifecycle controller and the pool
cvars == <<dom, disk, base, pool, pc, op, ctx, name, idx, waited, issued,
           result, seen, after, failed, stopped>>

\* the variables of the terminal session
tvars == <<session, websocket, conn, f_open, log_file, proxy_in, proxy_out,
           forwarded, received, now, active, connect_error, error_sent>>

\* the variables of the credential store and the provisioning step
avars == <<password, lock, apc, aarg, become_password, history, aret,
           launch_log, launch_log_other>>

\* the variables of the status stream
svars == <<stream, status_ws, pushed, status_log>>

hv == <<dom, disk, base>>
locals == <<pc, op, ctx, name, idx, waited, issued, result, seen, after, failed>>

\* ------------------------------------------------------------ terminal state

\* chunks that arrive from each side during one session
MaxChunks == 2

\* the two sides of a terminal session
Sources == {"client", "remote"}

\* clock readings during one session
MaxTime == 2

\* the header object written when the recording is opened; its timestamp is
\* int(start_time)
Header == [marker |-> "h", chunk |-> <<"none", 0>>, ts |-> now]

\* before the client connects
NoSession ==
    /\ session = "none"
    /\ websocket = "none"
    /\ conn = "none"
    /\ f_open = FALSE
    /\ log_file = <<>>
    /\ proxy_in = "none"
    /\ proxy_out = "none"
    /\ forwarded = {}
    /\ received = [s \in Sources |-> 0]
    /\ now = 0
    /\ active = 0
    /\ connect_error = "none"
    /\ error_sent = FALSE

\* ------------------------------------------------------------ hypervisor

NoDomain == [present |-> FALSE, persistent |-> FALSE,
             state |-> VIR_DOMAIN_NOSTATE, req |-> FALSE]

\* conn.lookupByName(name) succeeds
Exists(n) == dom[n].present

\* dom.isActive(): the domain has a running instance
ActiveStates == PowerStates \ {VIR_DOMAIN_SHUTOFF, VIR_DOMAIN_NOSTATE}
IsActive(d) == d.present /\ d.state \in ActiveStates

\* conn.defineXML(xml): a persistent, powered-off domain
HvDefine == [present |-> TRUE, persistent |-> TRUE,
             state |-> VIR_DOMAIN_SHUTOFF, req |-> FALSE]

\* dom.create(): power-on of an inactive domain
CanPowerOn(d) == d.present /\ ~IsActive(d)
HvPowerOn(d) == [d EXCEPT !.state = VIR_DOMAIN_RUNNING, !.req = FALSE]

\* dom.resume(): a paused domain runs again
CanResume(d) == d.present /\ d.state = VIR_DOMAIN_PAUSED
HvResume(d) == [d EXCEPT !.state = VIR_DOMAIN_RUNNING]

\* the instance of a domain ends: a persistent domain is shut off, a
\* transient one (undefined while active) is gone
PoweredOff(d) == IF d.persistent
                   THEN [d EXCEPT !.state = VIR_DOMAIN_SHUTOFF, !.req = FALSE]
                   ELSE NoDomain

\* dom.shutdown(): an asynchronous request to the guest of an active domain
CanShutdown(d) == IsActive(d)
HvShutdown(d) == [d EXCEPT !.req = TRUE]

\* dom.destroy(): synchronous forced power-off of an active domain
CanDestroy(d) == IsActive(d)
HvDestroy(d) == PoweredOff(d)

\* dom.undefineFlags(): the definition goes; an active instance lives on
HvUndefine(d) == IF IsActive(d) THEN [d EXCEPT !.persistent = FALSE]
                                ELSE NoDomain

\* ------------------------------------------------------------ outcomes

OK == "ok"
NONE == "none"
\* HTTPException raise sites: status code and reason
E404 == "404 not found"
E400Exists == "400 already exists"
E400Image == "400 image already exists"
E500Base == "500 base image not found"
E500Copy == "500 failed to copy base image"
E500Libvirt == "500 libvirt error"
E409Running == "409 already running"
E500Start == "500 failed to start"
E500Inspect == "500 failed to inspect"
E500InspectPoll == "500 failed to inspect during shutdown"
E500ForceStop == "500 failed to force stop"
E500Delete == "500 failed to delete"
E500Unhandled == "500 unhandled libvirtError"
E503NoVm == "503 no available vm"
E400OSError == "400 os error"
\* the create endpoint's 201 with status "created_with_ansible_error"
CreatedWithAnsibleError == "201 created with ansible error"

\* the spec's error kinds
HypervisorErrors == {E500Libvirt, E500Start, E500Inspect, E500InspectPoll,
                     E500ForceStop, E500Delete, E500Unhandled}
ProvisioningErrors == {E400Image, E500Base, E500Copy}

Idle(t) == pc[t] = "idle"

\* Set one thread's entry of a thread-indexed variable.
Put(f, t, v) == [f EXCEPT ![t] = v]


\* one more call issued by the request of thread t
Issue(t, o) == issued' = Put(issued, t, issued[t] \cup {o})

\* the handler of thread t moves on to position p
Goto(t, p) ==
    /\ pc' = Put(pc, t, p)
    /\ UNCHANGED <<result, pool, idx, name, failed>>

\* ------------------------------------------------------------ pool loops

\* init_pool: the loop moves to the next slot, or startup is over
InitNext(t, newpool) ==
    /\ pool' = newpool
    /\ failed' = failed
    /\ IF idx[t] < HOT_VM_POOL_SIZE
         THEN /\ idx' = Put(idx, t, idx[t] + 1)
              /\ name' = Put(name, t, PoolName(idx[t] + 1))
              /\ pc' = Put(pc, t, "en_lookup")
              /\ result' = result
         ELSE /\ pc' = Put(pc, t, "idle")
              /\ result' = Put(result, t, OK)
              /\ UNCHANGED <<idx, name>>

\* get_available_vm: `continue`, or `return None` after the last slot
GaContinue(t) ==
    /\ pool' = pool
    /\ failed' = IF idx[t] = 0 THEN failed
                 ELSE Put(failed, t, failed[t] \cup {name[t]})
    /\ IF idx[t] < Len(pool)
         THEN /\ idx' = Put(idx, t, idx[t] + 1)
              /\ name' = Put(name, t, pool[idx[t] + 1])
              /\ pc' = Put(pc, t, "ga_lookup")
              /\ result' = result
         ELSE /\ pc' = Put(pc, t, "idle")
              /\ result' = Put(result, t, E503NoVm)
              /\ UNCHANGED <<idx, name>>

\* a slip: the slot handed out is taken off the list
GaReturnTaken(t) ==
    /\ pc' = Put(pc, t, "idle")
    /\ result' = Put(result, t, OK)
    /\ pool' = SelectSeq(pool, LAMBDA n : n # name[t])
    /\ UNCHANGED <<idx, name, failed>>

\* get_available_vm: `return name`
GaReturn(t) ==
    /\ pc' = Put(pc, t, "idle")
    /\ result' = Put(result, t, OK)
    /\ UNCHANGED <<pool, idx, name, failed>>

\* _ensure_pool_vm_exists_and_stopped returned to its caller
EnsureReturned(t) ==
    IF ctx[t] = "init" THEN InitNext(t, Append(pool, name[t]))
                       ELSE GaReturn(t)

\* _ensure_pool_vm_exists_and_stopped raised: both callers log and go on
EnsureRaised(t) ==
    IF ctx[t] = "init" THEN InitNext(t, pool)
                       ELSE GaContinue(t)

\* a slip: the pool takes the VM as it is after create_vm, without stopping it
RetWithoutStop(t, m, r) ==
    IF ctx[t] = "api" /\ m = "create" /\ r = OK
      THEN Goto(t, "create_ansible")
    ELSE IF ctx[t] = "api"
      THEN /\ pc' = Put(pc, t, "idle")
           /\ result' = Put(result, t, r)
           /\ UNCHANGED <<pool, idx, name, failed>>
      ELSE IF r # OK THEN EnsureRaised(t)
      ELSE EnsureReturned(t)

\* Controller method m ("create" or any other) of thread t ends with outcome
\* r: a REST handler answers, the create endpoint after it has gone on to
\* configure_vm_with_ansible; _ensure_pool_vm_exists_and_stopped goes on from
\* create_vm to stop_vm, returns after stop_vm, and lets an error through.
Ret(t, m, r) ==
    IF ctx[t] = "api" /\ m = "create" /\ r = OK
      THEN Goto(t, "create_ansible")
    ELSE IF ctx[t] = "api"
      THEN /\ pc' = Put(pc, t, "idle")
           /\ result' = Put(result, t, r)
           /\ UNCHANGED <<pool, idx, name, failed>>
      ELSE IF r # OK THEN EnsureRaised(t)
      ELSE IF m = "create" THEN Goto(t, "stop_lookup")
      ELSE EnsureReturned(t)

\* ------------------------------------------------------------ stop_vm

\* if state == libvirt.VIR_DOMAIN_SHUTOFF: the no-op
AlreadyShutOff(s) == s = VIR_DOMAIN_SHUTOFF

\* a slip: the poll takes every state but Running for the end of the wait
PollSawNotRunning(s) == s # VIR_DOMAIN_RUNNING

\* if curr_state == libvirt.VIR_DOMAIN_SHUTOFF: the poll that ends the wait
PollSawShutOff(s) == s = VIR_DOMAIN_SHUTOFF

\* a slip: the loop gives up after its first round
TimedOutAtOnce(w) == w >= interval

\* `while waited < timeout_sec` is over
TimedOut(w) == ~(w < timeout_sec)

\* dom = self._get_domain(name)
StopLookup(t) ==
    /\ pc[t] = "stop_lookup"
    /\ IF Exists(name[t])
         THEN Goto(t, "stop_info") /\ stopped' = stopped
         ELSE /\ Ret(t, "stop", E404)
              /\ stopped' = [stopped EXCEPT ![name[t]] = "no"]
    /\ UNCHANGED <<hv, op, ctx, waited, issued, seen, after>>
    /\ UNCHANGED tvars
    /\ UNCHANGED <<avars, svars>>

\* info = dom.info(); the already-shut-off no-op
StopInfo(t) ==
    /\ pc[t] = "stop_info"
    /\ LET d == dom[name[t]] IN
       \/ /\ Ret(t, "stop", E500Inspect)
          /\ stopped' = [stopped EXCEPT ![name[t]] = "no"]
          /\ seen' = seen
       \/ /\ d.present /\ AlreadyShutOff(d.state)
          /\ Ret(t, "stop", OK)
          /\ stopped' = [stopped EXCEPT ![name[t]] = "noop"]
          /\ seen' = Put(seen, t, d.state)
       \/ /\ d.present /\ ~AlreadyShutOff(d.state)
          /\ Goto(t, "stop_snapshot")
          /\ stopped' = stopped
          /\ seen' = Put(seen, t, d.state)
    /\ UNCHANGED <<hv, op, ctx, waited, issued, after>>
    /\ UNCHANGED tvars
    /\ UNCHANGED <<avars, svars>>

\* a slip: the snapshot is taken outside the try/except, so that its failure
\* ends stop_vm with an error
StopSnapshotRaises(t) ==
    /\ pc[t] = "stop_snapshot"
    /\ \E bad \in BOOLEAN :
          /\ issued' = Put(issued, t, issued[t] \cup
                          (IF bad THEN {"snapshot", "snapshot failed"}
                                     ELSE {"snapshot"}))
          /\ IF bad THEN Ret(t, "stop", E500Unhandled)
                    ELSE Goto(t, "stop_shutdown")
    /\ UNCHANGED <<hv, op, ctx, waited, seen, after, stopped>>
    /\ UNCHANGED tvars
    /\ UNCHANGED <<avars, svars>>

\* self.backup_manager.create_snapshot(vm_name=name), inside try/except
StopSnapshot(t) ==
    /\ pc[t] = "stop_snapshot"
    /\ \E bad \in BOOLEAN :
          issued' = Put(issued, t, issued[t] \cup
                        (IF bad THEN {"snapshot", "snapshot failed"}
                                   ELSE {"snapshot"}))
    /\ Goto(t, "stop_shutdown")
    /\ UNCHANGED <<hv, op, ctx, waited, seen, after, stopped>>
    /\ UNCHANGED tvars
    /\ UNCHANGED <<avars, svars>>

\* dom.shutdown(), inside try/except; then waited = 0
StopShutdown(t) ==
    /\ pc[t] = "stop_shutdown"
    /\ LET d == dom[name[t]] IN
       \/ /\ CanShutdown(d)
          /\ dom' = [dom EXCEPT ![name[t]] = HvShutdown(d)]
          /\ Issue(t, "shutdown")
       \/ /\ dom' = dom
          /\ issued' = Put(issued, t, issued[t] \cup {"shutdown", "shutdown failed"})
    /\ waited' = Put(waited, t, 0)
    /\ Goto(t, "stop_poll")
    /\ UNCHANGED <<disk, base, op, ctx, seen, after, stopped>>
    /\ UNCHANGED tvars
    /\ UNCHANGED <<avars, svars>>

\* one round of `while waited < timeout_sec`: info, the ShutOff test, sleep
StopPoll(t) ==
    /\ pc[t] = "stop_poll"
    /\ LET d == dom[name[t]] IN
       \/ /\ Ret(t, "stop", E500InspectPoll)
          /\ stopped' = [stopped EXCEPT ![name[t]] = "no"]
          /\ UNCHANGED <<seen, waited>>
       \/ /\ d.present /\ PollSawShutOff(d.state)
          /\ Ret(t, "stop", OK)
          /\ stopped' = [stopped EXCEPT ![name[t]] = "poll"]
          /\ seen' = Put(seen, t, d.state)
          /\ waited' = waited
       \/ /\ d.present /\ ~PollSawShutOff(d.state)
          /\ seen' = Put(seen, t, d.state)
          /\ waited' = Put(waited, t, waited[t] + interval)
          /\ Goto(t, IF TimedOut(waited[t] + interval)
                       THEN "stop_destroy" ELSE "stop_poll")
          /\ stopped' = stopped
    /\ UNCHANGED <<hv, op, ctx, issued, after>>
    /\ UNCHANGED tvars
    /\ UNCHANGED <<avars, svars>>

\* dom.destroy() after the timeout
StopDestroy(t) ==
    /\ pc[t] = "stop_destroy"
    /\ Issue(t, "destroy")
    /\ LET d == dom[name[t]] IN
       \/ /\ CanDestroy(d)
          /\ dom' = [dom EXCEPT ![name[t]] = HvDestroy(d)]
          /\ Ret(t, "stop", OK)
          /\ stopped' = [stopped EXCEPT ![name[t]] =
                           IF d.persistent THEN "destroy" ELSE "destroy transient"]
       \/ /\ dom' = dom
          /\ Ret(t, "stop", E500ForceStop)
          /\ stopped' = [stopped EXCEPT ![name[t]] = "no"]
    /\ UNCHANGED <<disk, base, op, ctx, waited, seen, after>>
    /\ UNCHANGED tvars
    /\ UNCHANGED <<avars, svars>>


\* ------------------------------------------------------------ create_vm

\* a slip: the existence check never finds the domain
vm_exists_never(n) == FALSE

\* vm_exists(name): lookupByName did not raise
vm_exists(n) == Exists(n)

\* if self.vm_exists(name): raise 400
CreateExists(t) ==
    /\ pc[t] = "create_exists"
    /\ IF vm_exists(name[t]) THEN Ret(t, "create", E400Exists)
                          ELSE Goto(t, "create_clone")
    /\ UNCHANGED <<hv, op, ctx, waited, issued, seen, after, stopped>>
    /\ UNCHANGED tvars
    /\ UNCHANGED <<avars, svars>>

\* a slip: the copy does not look for an image at the destination first
CloneBaseImageOverwrites(t) ==
    /\ pc[t] = "create_clone"
    /\ IF ~base
         THEN Ret(t, "create", E500Base) /\ UNCHANGED <<disk, issued>>
         ELSE /\ Issue(t, "clone")
              /\ \/ /\ disk' = [disk EXCEPT ![name[t]] = TRUE]
                    /\ Goto(t, "create_define")
                 \/ /\ \E left \in BOOLEAN :
                          disk' = [disk EXCEPT ![name[t]] = left]
                    /\ Ret(t, "create", E500Copy)
    /\ UNCHANGED <<dom, base, op, ctx, waited, seen, after, stopped>>
    /\ UNCHANGED tvars
    /\ UNCHANGED <<avars, svars>>

\* _clone_base_image(name): a failed copy may leave a partial file behind
CloneBaseImage(t) ==
    /\ pc[t] = "create_clone"
    /\ IF ~base
         THEN Ret(t, "create", E500Base) /\ UNCHANGED <<disk, issued>>
         ELSE IF disk[name[t]]
         THEN Ret(t, "create", E400Image) /\ UNCHANGED <<disk, issued>>
         ELSE /\ Issue(t, "clone")
              /\ \/ /\ disk' = [disk EXCEPT ![name[t]] = TRUE]
                    /\ Goto(t, "create_define")
                 \/ /\ \E left \in BOOLEAN :
                          disk' = [disk EXCEPT ![name[t]] = left]
                    /\ Ret(t, "create", E500Copy)
    /\ UNCHANGED <<dom, base, op, ctx, waited, seen, after, stopped>>
    /\ UNCHANGED tvars
    /\ UNCHANGED <<avars, svars>>

\* dom = self.conn.defineXML(domain_xml): refused when the name is taken
CreateDefine(t) ==
    /\ pc[t] = "create_define"
    /\ Issue(t, "define")
    /\ \/ /\ ~Exists(name[t])
          /\ dom' = [dom EXCEPT ![name[t]] = HvDefine]
          /\ Goto(t, "create_start")
       \/ /\ dom' = dom
          /\ Ret(t, "create", E500Libvirt)
    /\ UNCHANGED <<disk, base, op, ctx, waited, seen, after, stopped>>
    /\ UNCHANGED tvars
    /\ UNCHANGED <<avars, svars>>

\* dom.create(); return the VM's description
CreatePowerOn(t) ==
    /\ pc[t] = "create_start"
    /\ Issue(t, "poweron")
    /\ LET d == dom[name[t]] IN
       \/ /\ CanPowerOn(d)
          /\ dom' = [dom EXCEPT ![name[t]] = HvPowerOn(d)]
          /\ Ret(t, "create", OK)
       \/ /\ dom' = dom
          /\ Ret(t, "create", E500Libvirt)
    /\ UNCHANGED <<disk, base, op, ctx, waited, seen, after, stopped>>
    /\ UNCHANGED tvars
    /\ UNCHANGED <<avars, svars>>

\* The create endpoint after create_vm has returned:
\* configure_vm_with_ansible(payload.name) and the answer.  The playbook run
\* succeeds; or it raises HTTPException (ansible-playbook not found, or a
\* return code other than 0), which the endpoint turns into the status
\* "created_with_ansible_error"; or subprocess.run raises another error
\* (an OSError other than FileNotFoundError), which only the endpoint's
\* `except Exception` catches.
CreateAnsible(t) ==
    /\ pc[t] = "create_ansible"
    /\ \E r \in {OK, CreatedWithAnsibleError, E400OSError} :
          /\ issued' = Put(issued, t, issued[t] \cup
                          (IF r = OK THEN {"ansible"}
                                    ELSE {"ansible", "ansible failed"}))
          /\ result' = Put(result, t, r)
    /\ pc' = Put(pc, t, "idle")
    /\ UNCHANGED <<hv, pool, op, ctx, name, idx, waited, seen, after, failed,
                   stopped>>
    /\ UNCHANGED tvars
    /\ UNCHANGED <<avars, svars>>

\* ------------------------------------------------------------ start_vm

StartLookup(t) ==
    /\ pc[t] = "start_lookup"
    /\ IF Exists(name[t]) THEN Goto(t, "start_info")
                          ELSE Ret(t, "start", E404)
    /\ UNCHANGED <<hv, op, ctx, waited, issued, seen, after, stopped>>
    /\ UNCHANGED tvars
    /\ UNCHANGED <<avars, svars>>

\* a slip: the Running test never fires
IsRunningNever(s) == FALSE

\* if state == libvirt.VIR_DOMAIN_RUNNING
IsRunning(s) == s = VIR_DOMAIN_RUNNING

\* a slip: the Paused test takes ShutOff for Paused
IsPausedOrShutOff(s) == s \in {VIR_DOMAIN_PAUSED, VIR_DOMAIN_SHUTOFF}

\* if state == libvirt.VIR_DOMAIN_PAUSED
IsPaused(s) == s = VIR_DOMAIN_PAUSED

\* info = dom.info() and the dispatch on the state it reports
StartInfo(t) ==
    /\ pc[t] = "start_info"
    /\ LET d == dom[name[t]] IN
       \/ Ret(t, "start", E500Start) /\ seen' = seen
       \/ /\ d.present
          /\ seen' = Put(seen, t, d.state)
          /\ IF IsRunning(d.state) THEN Ret(t, "start", E409Running)
             ELSE IF IsPaused(d.state) THEN Goto(t, "start_resume")
             ELSE Goto(t, "start_create")
    /\ UNCHANGED <<hv, op, ctx, waited, issued, after, stopped>>
    /\ UNCHANGED tvars
    /\ UNCHANGED <<avars, svars>>

\* dom.resume()
StartResume(t) ==
    /\ pc[t] = "start_resume"
    /\ Issue(t, "resume")
    /\ LET d == dom[name[t]] IN
       \/ /\ CanResume(d)
          /\ dom' = [dom EXCEPT ![name[t]] = HvResume(d)]
          /\ Ret(t, "start", OK)
       \/ /\ dom' = dom
          /\ Ret(t, "start", E500Start)
    /\ UNCHANGED <<disk, base, op, ctx, waited, seen, after, stopped>>
    /\ UNCHANGED tvars
    /\ UNCHANGED <<avars, svars>>

\* dom.create()
StartPowerOn(t) ==
    /\ pc[t] = "start_create"
    /\ Issue(t, "poweron")
    /\ LET d == dom[name[t]] IN
       \/ /\ CanPowerOn(d)
          /\ dom' = [dom EXCEPT ![name[t]] = HvPowerOn(d)]
          /\ Ret(t, "start", OK)
       \/ /\ dom' = dom
          /\ Ret(t, "start", E500Start)
    /\ UNCHANGED <<disk, base, op, ctx, waited, seen, after, stopped>>
    /\ UNCHANGED tvars
    /\ UNCHANGED <<avars, svars>>

\* ------------------------------------------------------------ delete_vm

\* a slip: the disk image is removed before the domain is looked up
DeleteLookupAfterRemove(t) ==
    /\ pc[t] = "delete_lookup"
    /\ disk' = [disk EXCEPT ![name[t]] = FALSE]
    /\ IF Exists(name[t]) THEN Goto(t, "delete_active")
                          ELSE Ret(t, "delete", E404)
    /\ UNCHANGED <<dom, base, op, ctx, waited, issued, seen, after, stopped>>
    /\ UNCHANGED tvars
    /\ UNCHANGED <<avars, svars>>

\* dom = self._get_domain(name)
DeleteLookup(t) ==
    /\ pc[t] = "delete_lookup"
    /\ IF Exists(name[t]) THEN Goto(t, "delete_active")
                          ELSE Ret(t, "delete", E404)
    /\ UNCHANGED <<hv, op, ctx, waited, issued, seen, after, stopped>>
    /\ UNCHANGED tvars
    /\ UNCHANGED <<avars, svars>>

\* if dom.isActive(): (a libvirtError is swallowed)
DeleteIsActive(t) ==
    /\ pc[t] = "delete_active"
    /\ \/ Goto(t, "delete_undefine")
       \/ /\ IsActive(dom[name[t]])
          /\ Goto(t, "delete_destroy")
    /\ UNCHANGED <<hv, op, ctx, waited, issued, seen, after, stopped>>
    /\ UNCHANGED tvars
    /\ UNCHANGED <<avars, svars>>

\* dom.destroy() (a libvirtError is swallowed)
DeleteDestroy(t) ==
    /\ pc[t] = "delete_destroy"
    /\ Issue(t, "destroy")
    /\ LET d == dom[name[t]] IN
       \/ /\ CanDestroy(d)
          /\ dom' = [dom EXCEPT ![name[t]] = HvDestroy(d)]
       \/ dom' = dom
    /\ Goto(t, "delete_undefine")
    /\ UNCHANGED <<disk, base, op, ctx, waited, seen, after, stopped>>
    /\ UNCHANGED tvars
    /\ UNCHANGED <<avars, svars>>

\* dom.undefineFlags(...): its libvirtError skips the disk removal
DeleteUndefine(t) ==
    /\ pc[t] = "delete_undefine"
    /\ Issue(t, "undefine")
    /\ LET d == dom[name[t]] IN
       \/ /\ d.present
          /\ dom' = [dom EXCEPT ![name[t]] = HvUndefine(d)]
          /\ Goto(t, "delete_rmdisk")
       \/ /\ dom' = dom
          /\ Ret(t, "delete", E500Delete)
    /\ UNCHANGED <<disk, base, op, ctx, waited, seen, after, stopped>>
    /\ UNCHANGED tvars
    /\ UNCHANGED <<avars, svars>>

\* if os.path.exists(disk_path): os.remove(disk_path); an OSError reaches
\* the REST handler, which answers 400
DeleteRemoveDisk(t) ==
    /\ pc[t] = "delete_rmdisk"
    /\ IF disk[name[t]]
         THEN /\ Issue(t, "rmdisk")
              /\ \/ /\ disk' = [disk EXCEPT ![name[t]] = FALSE]
                    /\ Ret(t, "delete", OK)
                 \/ /\ disk' = disk
                    /\ Ret(t, "delete", E400OSError)
         ELSE /\ Ret(t, "delete", OK)
              /\ UNCHANGED <<disk, issued>>
    /\ UNCHANGED <<dom, base, op, ctx, waited, seen, after, stopped>>
    /\ UNCHANGED tvars
    /\ UNCHANGED <<avars, svars>>

\* ------------------------------------------------------------ get_vm_state

GetStateLookup(t) ==
    /\ pc[t] = "state_lookup"
    /\ IF Exists(name[t]) THEN Goto(t, "state_info")
                          ELSE Ret(t, "state", E404)
    /\ UNCHANGED <<hv, op, ctx, waited, issued, seen, after, stopped>>
    /\ UNCHANGED tvars
    /\ UNCHANGED <<avars, svars>>

\* info = dom.info(), not guarded; the state reported is info[0]
GetStateInfo(t) ==
    /\ pc[t] = "state_info"
    /\ LET d == dom[name[t]] IN
       \/ Ret(t, "state", E500Unhandled) /\ seen' = seen
       \/ /\ d.present
          /\ seen' = Put(seen, t, d.state)
          /\ Ret(t, "state", OK)
    /\ UNCHANGED <<hv, op, ctx, waited, issued, after, stopped>>
    /\ UNCHANGED tvars
    /\ UNCHANGED <<avars, svars>>


\* ------------------------------------------------------------ REST handlers

\* no request of another thread is at work on VM n
Alone(t, n) == \A u \in Threads \ {t} : Idle(u) \/ name[u] # n

\* A worker thread takes up request o on VM n and enters the controller
\* method at position p.
Begin(t, o, n, p) ==
    /\ Idle(t)
    /\ op' = Put(op, t, o)
    /\ name' = Put(name, t, n)
    /\ ctx' = Put(ctx, t, "api")
    /\ pc' = Put(pc, t, p)
    /\ idx' = Put(idx, t, 0)
    /\ waited' = Put(waited, t, 0)
    /\ issued' = Put(issued, t, {})
    /\ result' = Put(result, t, NONE)
    /\ seen' = Put(seen, t, -1)
    /\ failed' = Put(failed, t, {})
    /\ after' = Put(after, t, o = "stop" /\ stopped[n] # "no" /\ Alone(t, n))
    /\ stopped' = IF o \in {"stop", "state"} THEN stopped
                  ELSE [stopped EXCEPT ![n] = "no"]
    /\ UNCHANGED <<hv, pool>>
    /\ UNCHANGED tvars
    /\ UNCHANGED <<avars, svars>>

\* POST /vms/create
CallCreate(t, n) == Begin(t, "create", n, "create_exists")
\* POST /vms/start/{name}
CallStart(t, n) == Begin(t, "start", n, "start_lookup")
\* POST /vms/stop/{name}
CallStop(t, n) == Begin(t, "stop", n, "stop_lookup")
\* DELETE /vms/delete/{name}
CallDelete(t, n) == Begin(t, "delete", n, "delete_lookup")
\* get_vm_state(name), as the status stream calls it
CallGetState(t, n) == Begin(t, "state", n, "state_lookup")

\* ------------------------------------------------------------ credential state

\* callers of the credential store: REST requests and provisioning runs
Callers == {"a1", "a2", "a3"}

\* the passwords a client may store
Secrets == {"s1", "s2"}

\* Python's None
None == "None"

\* writes to the store during one run, and playbook launches
MaxWrites == 3
MaxLaunches == 1

\* the service has started and nobody has stored a password
NoCredential ==
    /\ password = None
    /\ lock = "free"
    /\ apc = [c \in Callers |-> "idle"]
    /\ aarg = [c \in Callers |-> None]
    /\ become_password = [c \in Callers |-> None]
    /\ history = <<>>
    /\ aret = [c \in Callers |-> 0]
    /\ launch_log = <<>>
    /\ launch_log_other = <<>>

\* ------------------------------------------------------------ status stream state

\* states pushed to one client
MaxPush == 2

\* before the client connects
NoStream ==
    /\ stream = "none"
    /\ status_ws = "none"
    /\ pushed = 0
    /\ status_log = <<>>

\* ------------------------------------------------------------ environment

\* The guest completes a requested graceful shutdown.
GuestShutsDown(n) ==
    /\ IsActive(dom[n]) /\ dom[n].req
    /\ dom[n].state # VIR_DOMAIN_PAUSED
    /\ dom' = [dom EXCEPT ![n] = PoweredOff(dom[n])]
    /\ UNCHANGED <<disk, base, pool, locals, stopped>>
    /\ UNCHANGED tvars
    /\ UNCHANGED <<avars, svars>>

\* The power state changes out of band (the guest crashes, an administrator
\* pauses, starts or powers off the domain).
External(n, s) ==
    /\ dom[n].present /\ dom[n].state # s
    /\ dom' = [dom EXCEPT ![n] =
                 IF s \in ActiveStates THEN [dom[n] EXCEPT !.state = s]
                 ELSE IF dom[n].persistent
                   THEN [dom[n] EXCEPT !.state = s, !.req = FALSE]
                   ELSE NoDomain]
    /\ stopped' = [stopped EXCEPT ![n] = "no"]
    /\ after' = [t \in Threads |-> after[t] /\ name[t] # n]
    /\ UNCHANGED <<disk, base, pool, pc, op, ctx, name, idx, waited, issued,
                   result, seen, failed>>
    /\ UNCHANGED tvars
    /\ UNCHANGED <<avars, svars>>

\* A domain is undefined and its disk image deleted out of band.
ExternalDelete(n) ==
    /\ dom[n].present \/ disk[n]
    /\ dom' = [dom EXCEPT ![n] = NoDomain]
    /\ disk' = [disk EXCEPT ![n] = FALSE]
    /\ stopped' = [stopped EXCEPT ![n] = "no"]
    /\ after' = [t \in Threads |-> after[t] /\ name[t] # n]
    /\ UNCHANGED <<base, pool, pc, op, ctx, name, idx, waited, issued,
                   result, seen, failed>>
    /\ UNCHANGED tvars
    /\ UNCHANGED <<avars, svars>>

\* The base image disappears or is put back.
ExternalBase ==
    /\ base' = ~base
    /\ UNCHANGED <<dom, disk, pool, locals, stopped>>
    /\ UNCHANGED tvars
    /\ UNCHANGED <<avars, svars>>

\* ------------------------------------------------------------ lifecycle

Init ==
    /\ dom = [n \in Names |-> NoDomain]
    /\ disk = [n \in Names |-> FALSE]
    /\ base = TRUE
    /\ pool = <<>>
    /\ pc = [t \in Threads |-> "idle"]
    /\ op = [t \in Threads |-> "none"]
    /\ ctx = [t \in Threads |-> "api"]
    /\ name = [t \in Threads |-> "lab1"]
    /\ idx = [t \in Threads |-> 0]
    /\ waited = [t \in Threads |-> 0]
    /\ issued = [t \in Threads |-> {}]
    /\ result = [t \in Threads |-> NONE]
    /\ seen = [t \in Threads |-> -1]
    /\ after = [t \in Threads |-> FALSE]
    /\ failed = [t \in Threads |-> {}]
    /\ stopped = [n \in Names |-> "no"]
    /\ NoSession
    /\ NoCredential
    /\ NoStream

\* one step of stop_vm
StopStep(t) ==
    \/ StopLookup(t) \/ StopInfo(t) \/ StopSnapshot(t) \/ StopShutdown(t)
    \/ StopPoll(t) \/ StopDestroy(t)

\* one step of create_vm
CreateStep(t) ==
    \/ CreateExists(t) \/ CloneBaseImage(t) \/ CreateDefine(t) \/ CreatePowerOn(t)

\* one step of start_vm, delete_vm or get_vm_state
OtherStep(t) ==
    \/ StartLookup(t) \/ StartInfo(t) \/ StartResume(t) \/ StartPowerOn(t)
    \/ DeleteLookup(t) \/ DeleteIsActive(t) \/ DeleteDestroy(t)
    \/ DeleteUndefine(t) \/ DeleteRemoveDisk(t)
    \/ GetStateLookup(t) \/ GetStateInfo(t)

\* The lifecycle requests of one client on the lab VMs, one after another,
\* with the guest and the administrator acting in between.
Next ==
    \/ \E n \in LabNames :
          \/ CallCreate("t1", n) \/ CallStart("t1", n) \/ CallStop("t1", n)
          \/ CallDelete("t1", n) \/ CallGetState("t1", n)
          \/ GuestShutsDown(n)
          \/ ExternalDelete(n)
          \/ \E s \in PowerStates : External(n, s)
    \/ ExternalBase
    \/ StopStep("t1") \/ CreateStep("t1") \/ CreateAnsible("t1")
    \/ OtherStep("t1")

Spec == Init /\ [][Next]_vars

\* The same, with the request's thread scheduled: a thread inside stop_vm
\* eventually takes its next step.
SpecLive == Spec /\ \A t \in Threads : WF_vars(StopStep(t))


\* ------------------------------------------------------------ pool_manager

\* the VM is touched by something that is not a stop of it
Touch(n) == stopped' = [stopped EXCEPT ![n] = "no"]

\* dom = conn.lookupByName(name): a libvirtError means the domain is missing
EnsureLookup(t) ==
    /\ pc[t] = "en_lookup"
    /\ Goto(t, IF Exists(name[t]) THEN "en_info" ELSE "en_rmdisk")
    /\ UNCHANGED <<hv, op, ctx, waited, issued, seen, after, stopped>>
    /\ UNCHANGED tvars
    /\ UNCHANGED <<avars, svars>>

\* if state == 1: (the slot is only stopped when it is Running)
EnsureMustStop(s) == s = VIR_DOMAIN_RUNNING

\* info = dom.info() and the test of the state; a libvirtError of info()
\* lands in the handler for a missing domain
EnsureInfo(t) ==
    /\ pc[t] = "en_info"
    /\ LET d == dom[name[t]] IN
       \/ Goto(t, "en_rmdisk") /\ seen' = seen
       \/ /\ d.present
          /\ seen' = Put(seen, t, d.state)
          /\ IF EnsureMustStop(d.state) THEN Goto(t, "en_shutdown")
                                        ELSE EnsureReturned(t)
    /\ UNCHANGED <<hv, op, ctx, waited, issued, after, stopped>>
    /\ UNCHANGED tvars
    /\ UNCHANGED <<avars, svars>>

\* dom.shutdown(); its libvirtError leads to destroy
EnsureShutdown(t) ==
    /\ pc[t] = "en_shutdown"
    /\ LET d == dom[name[t]] IN
       \/ /\ CanShutdown(d)
          /\ dom' = [dom EXCEPT ![name[t]] = HvShutdown(d)]
          /\ Issue(t, "shutdown")
          /\ EnsureReturned(t)
       \/ /\ dom' = dom
          /\ issued' = Put(issued, t, issued[t] \cup {"shutdown", "shutdown failed"})
          /\ Goto(t, "en_destroy")
    /\ Touch(name[t])
    /\ UNCHANGED <<disk, base, op, ctx, waited, seen, after>>
    /\ UNCHANGED tvars
    /\ UNCHANGED <<avars, svars>>

\* dom.destroy(); its libvirtError lands in the handler for a missing domain
EnsureDestroy(t) ==
    /\ pc[t] = "en_destroy"
    /\ Issue(t, "destroy")
    /\ LET d == dom[name[t]] IN
       \/ /\ CanDestroy(d)
          /\ dom' = [dom EXCEPT ![name[t]] = HvDestroy(d)]
          /\ EnsureReturned(t)
       \/ /\ dom' = dom
          /\ Goto(t, "en_rmdisk")
    /\ Touch(name[t])
    /\ UNCHANGED <<disk, base, op, ctx, waited, seen, after>>
    /\ UNCHANGED tvars
    /\ UNCHANGED <<avars, svars>>

\* the call of create_vm that makes a pool VM
CreatePoolVm ==
    "create_vm(memory_mb=DEFAULT_MEMORY_MB, vcpus=DEFAULT_VCPU, owner=pool)"

\* except libvirt.libvirtError: remove the disk image found at the slot's
\* path (an OSError is logged), then call create_vm
EnsureRemoveOrphan(t) ==
    /\ pc[t] = "en_rmdisk"
    /\ IF disk[name[t]]
         THEN /\ issued' = Put(issued, t, issued[t] \cup {"rmdisk", CreatePoolVm})
              /\ \/ disk' = [disk EXCEPT ![name[t]] = FALSE]
                 \/ disk' = disk
         ELSE /\ Issue(t, CreatePoolVm)
              /\ disk' = disk
    /\ Goto(t, "create_exists")
    /\ Touch(name[t])
    /\ UNCHANGED <<dom, base, op, ctx, waited, seen, after>>
    /\ UNCHANGED tvars
    /\ UNCHANGED <<avars, svars>>

\* for name in self.pool: the first slot, or None for an empty list
GaStart(t) ==
    /\ pc[t] = "ga_start"
    /\ GaContinue(t)
    /\ UNCHANGED <<hv, op, ctx, waited, issued, seen, after, stopped>>
    /\ UNCHANGED tvars
    /\ UNCHANGED <<avars, svars>>

\* dom = conn.lookupByName(name); a missing domain is recreated
GaLookup(t) ==
    /\ pc[t] = "ga_lookup"
    /\ Goto(t, IF Exists(name[t]) THEN "ga_info" ELSE "en_lookup")
    /\ UNCHANGED <<hv, op, ctx, waited, issued, seen, after, stopped>>
    /\ UNCHANGED tvars
    /\ UNCHANGED <<avars, svars>>

\* info = dom.info(); if state != 5: ...; return name
GaInfo(t) ==
    /\ pc[t] = "ga_info"
    /\ LET d == dom[name[t]] IN
       \/ GaContinue(t) /\ seen' = seen
       \/ /\ d.present
          /\ seen' = Put(seen, t, d.state)
          /\ IF d.state # VIR_DOMAIN_SHUTOFF THEN Goto(t, "ga_shutdown")
                                             ELSE GaReturn(t)
    /\ UNCHANGED <<hv, op, ctx, waited, issued, after, stopped>>
    /\ UNCHANGED tvars
    /\ UNCHANGED <<avars, svars>>

\* dom.shutdown(); return name
GaShutdown(t) ==
    /\ pc[t] = "ga_shutdown"
    /\ LET d == dom[name[t]] IN
       \/ /\ CanShutdown(d)
          /\ dom' = [dom EXCEPT ![name[t]] = HvShutdown(d)]
          /\ Issue(t, "shutdown")
          /\ GaReturn(t)
       \/ /\ dom' = dom
          /\ issued' = Put(issued, t, issued[t] \cup {"shutdown", "shutdown failed"})
          /\ Goto(t, "ga_destroy")
    /\ Touch(name[t])
    /\ UNCHANGED <<disk, base, op, ctx, waited, seen, after>>
    /\ UNCHANGED tvars
    /\ UNCHANGED <<avars, svars>>

\* except libvirt.libvirtError: dom.destroy(); return name
GaDestroy(t) ==
    /\ pc[t] = "ga_destroy"
    /\ Issue(t, "destroy")
    /\ LET d == dom[name[t]] IN
       \/ /\ CanDestroy(d)
          /\ dom' = [dom EXCEPT ![name[t]] = HvDestroy(d)]
          /\ GaReturn(t)
       \/ /\ dom' = dom
          /\ GaContinue(t)
    /\ Touch(name[t])
    /\ UNCHANGED <<disk, base, op, ctx, waited, seen, after>>
    /\ UNCHANGED tvars
    /\ UNCHANGED <<avars, svars>>

\* POST /pool/allocate: pool_manager.get_available_vm()
CallAllocate(t) ==
    /\ Idle(t)
    /\ op' = Put(op, t, "allocate")
    /\ ctx' = Put(ctx, t, "ga")
    /\ pc' = Put(pc, t, "ga_start")
    /\ idx' = Put(idx, t, 0)
    /\ waited' = Put(waited, t, 0)
    /\ issued' = Put(issued, t, {})
    /\ result' = Put(result, t, NONE)
    /\ seen' = Put(seen, t, -1)
    /\ failed' = Put(failed, t, {})
    /\ after' = Put(after, t, FALSE)
    /\ UNCHANGED <<hv, pool, name, stopped>>
    /\ UNCHANGED tvars
    /\ UNCHANGED <<avars, svars>>

\* one step of _ensure_pool_vm_exists_and_stopped
EnsureStep(t) ==
    \/ EnsureLookup(t) \/ EnsureInfo(t) \/ EnsureShutdown(t)
    \/ EnsureDestroy(t) \/ EnsureRemoveOrphan(t)

\* one step of get_available_vm
GaStep(t) ==
    \/ GaStart(t) \/ GaLookup(t) \/ GaInfo(t) \/ GaShutdown(t) \/ GaDestroy(t)

\* PoolManager.__init__ as the service starts: the pool list is empty and
\* init_pool is about to reconcile pool-vm-1.  The base image may be missing
\* and the hypervisor may hold pool VMs of an earlier run.
InitPool ==
    /\ dom \in [Names -> {NoDomain, HvDefine, HvPowerOn(HvDefine)}]
    /\ \A n \in LabNames : dom[n] = NoDomain
    /\ disk = [n \in Names |-> dom[n].present]
    /\ base \in BOOLEAN
    /\ pool = <<>>
    /\ pc = [t \in Threads |-> IF t = "t1" THEN "en_lookup" ELSE "idle"]
    /\ op = [t \in Threads |-> IF t = "t1" THEN "startup" ELSE "none"]
    /\ ctx = [t \in Threads |-> IF t = "t1" THEN "init" ELSE "api"]
    /\ name = [t \in Threads |-> PoolName(1)]
    /\ idx = [t \in Threads |-> IF t = "t1" THEN 1 ELSE 0]
    /\ waited = [t \in Threads |-> 0]
    /\ issued = [t \in Threads |-> {}]
    /\ result = [t \in Threads |-> NONE]
    /\ seen = [t \in Threads |-> -1]
    /\ after = [t \in Threads |-> FALSE]
    /\ failed = [t \in Threads |-> {}]
    /\ stopped = [n \in Names |-> "no"]
    /\ NoSession
    /\ NoCredential
    /\ NoStream

\* the service has started: init_pool is over
Started == op["t1"] # "startup" \/ Idle("t1")

\* Startup, then allocation requests one after another, with the guests and
\* the administrator acting on the pool VMs in between.
NextPool ==
    \/ CallAllocate("t1")
    \/ GaStep("t1") \/ EnsureStep("t1") \/ CreateStep("t1") \/ StopStep("t1")
    \/ \E n \in PoolNames :
          \/ GuestShutsDown(n)
          \/ ExternalDelete(n)
          \/ External(n, VIR_DOMAIN_RUNNING)
    \/ ExternalBase

SpecPool == InitPool /\ [][NextPool]_vars

\* The service has started with every slot in the pool list, and the pool
\* VMs have since been undefined out of band, their disk images deleted or
\* left behind.  Clients allocate, one request after another; the guests
\* shut down when asked to, and between two requests the pool VMs are deleted
\* again.
InitReconcile ==
    /\ dom = [n \in Names |-> NoDomain]
    /\ disk \in [Names -> BOOLEAN]
    /\ \A n \in LabNames : ~disk[n]
    /\ base = TRUE
    /\ pool = [i \in 1 .. HOT_VM_POOL_SIZE |-> PoolName(i)]
    /\ pc = [t \in Threads |-> "idle"]
    /\ op = [t \in Threads |-> "none"]
    /\ ctx = [t \in Threads |-> "api"]
    /\ name = [t \in Threads |-> PoolName(1)]
    /\ idx = [t \in Threads |-> 0]
    /\ waited = [t \in Threads |-> 0]
    /\ issued = [t \in Threads |-> {}]
    /\ result = [t \in Threads |-> NONE]
    /\ seen = [t \in Threads |-> -1]
    /\ after = [t \in Threads |-> FALSE]
    /\ failed = [t \in Threads |-> {}]
    /\ stopped = [n \in Names |-> "no"]
    /\ NoSession
    /\ NoCredential
    /\ NoStream

\* (the domain is missing whenever get_available_vm enters the
\* reconciliation, so only its missing-domain branch is taken)
NextReconcile ==
    \/ CallAllocate("t1")
    \/ GaStep("t1") \/ EnsureLookup("t1") \/ EnsureRemoveOrphan("t1")
    \/ CreateStep("t1") \/ StopStep("t1")
    \/ \E n \in PoolNames :
          \/ GuestShutsDown(n)
          \/ Idle("t1") /\ ExternalDelete(n)

SpecReconcile == InitReconcile /\ [][NextReconcile]_vars

\* ------------------------------------------------------------ concurrency

\* Two clients stop the same running VM, whose guest ignores the shutdown
\* request; the handlers run on two worker threads with no lock between them.
InitConcStop ==
    /\ dom = [n \in Names |-> IF n = "lab1" THEN HvPowerOn(HvDefine) ELSE NoDomain]
    /\ disk = [n \in Names |-> n = "lab1"]
    /\ base = TRUE
    /\ pool = <<>>
    /\ pc = [t \in Threads |-> "idle"]
    /\ op = [t \in Threads |-> "none"]
    /\ ctx = [t \in Threads |-> "api"]
    /\ name = [t \in Threads |-> "lab1"]
    /\ idx = [t \in Threads |-> 0]
    /\ waited = [t \in Threads |-> 0]
    /\ issued = [t \in Threads |-> {}]
    /\ result = [t \in Threads |-> NONE]
    /\ seen = [t \in Threads |-> -1]
    /\ after = [t \in Threads |-> FALSE]
    /\ failed = [t \in Threads |-> {}]
    /\ stopped = [n \in Names |-> "no"]
    /\ NoSession
    /\ NoCredential
    /\ NoStream

NextConcStop ==
    \E t \in Threads : CallStop(t, "lab1") \/ StopStep(t)

SpecConcStop == InitConcStop /\ [][NextConcStop]_vars

\* The service has started with pool-vm-1 in the pool list (init_pool left
\* out the slots it failed on), and the pool VMs have since been deleted out
\* of band.  Two clients allocate at once, one request each.
InitConcPool ==
    /\ dom = [n \in Names |-> NoDomain]
    /\ disk = [n \in Names |-> FALSE]
    /\ base = TRUE
    /\ pool = <<PoolName(1)>>
    /\ pc = [t \in Threads |-> "idle"]
    /\ op = [t \in Threads |-> "none"]
    /\ ctx = [t \in Threads |-> "api"]
    /\ name = [t \in Threads |-> PoolName(1)]
    /\ idx = [t \in Threads |-> 0]
    /\ waited = [t \in Threads |-> 0]
    /\ issued = [t \in Threads |-> {}]
    /\ result = [t \in Threads |-> NONE]
    /\ seen = [t \in Threads |-> -1]
    /\ after = [t \in Threads |-> FALSE]
    /\ failed = [t \in Threads |-> {}]
    /\ stopped = [n \in Names |-> "no"]
    /\ NoSession
    /\ NoCredential
    /\ NoStream

NextConcPool ==
    \E t \in Threads :
        \/ op[t] = "none" /\ CallAllocate(t)
        \/ GaStep(t) \/ EnsureStep(t) \/ CreateStep(t) \/ StopStep(t)

SpecConcPool == InitConcPool /\ [][NextConcPool]_vars

\* Two clients allocate one after the other: the second request is made
\* when the first has returned a slot name.  The pool holds every slot, no domain is
\* defined yet, and the hypervisor state changes only through the requests
\* themselves and through the guest of the slot the first request is working
\* on, which may power off while that request runs.
NextRepeat ==
    \/ op["t1"] = "none" /\ CallAllocate("t1")
    \/ /\ Idle("t1") /\ op["t1"] = "allocate" /\ result["t1"] = OK
       /\ op["t2"] = "none"
       /\ CallAllocate("t2")
    \/ \E t \in Threads :
          \/ GaStep(t) \/ EnsureLookup(t) \/ EnsureRemoveOrphan(t)
          \/ CreateStep(t) \/ StopStep(t)
    \/ ~Idle("t1") /\ GuestShutsDown(name["t1"])

\* (no pool VM has been created yet and no disk image is left behind)
InitRepeat ==
    /\ InitReconcile
    /\ \A n \in Names : ~disk[n]

SpecRepeat == InitRepeat /\ [][NextRepeat]_vars

\* ------------------------------------------------------------ terminal session

\* a task that has returned or raised
Finished == {"done", "failed"}

\* a slip: every record is marked as input
DirectionMarkerInput(src) == "i"

\* the direction marker of a record: "i" in _proxy_websocket_to_ssh, "o" in
\* _proxy_ssh_to_websocket
DirectionMarker(src) == IF src = "client" THEN "i" ELSE "o"

\* a slip: the record carries the chunk's number in its direction where the
\* time belongs
RecordNumbered(src, k) ==
    [marker |-> DirectionMarker(src), chunk |-> <<src, k>>, ts |-> k]

\* timestamp = time.time()
\* log_file.write(json.dumps([timestamp, marker, chunk]) + "\n")
Record(src, k) ==
    [marker |-> DirectionMarker(src), chunk |-> <<src, k>>, ts |-> now]

\* record_ssh_session_change: set(max(current + delta, 0))
Gauge(current, delta) == IF current + delta > 0 THEN current + delta ELSE 0

\* await websocket.accept(); record_ssh_session_change(owner, name, +1);
\* open(log_path, "w") and the header.  An OSError of open() leaves the
\* handler before its try statement; the server then closes the channel.
TermAccept ==
    /\ session = "none"
    /\ active' = Gauge(active, 1)
    /\ \/ /\ session' = "accepted"
          /\ websocket' = "open"
          /\ f_open' = TRUE
          /\ log_file' = <<Header>>
       \/ /\ session' = "crashed"
          /\ websocket' = "closed"
          /\ UNCHANGED <<f_open, log_file>>
    /\ UNCHANGED <<conn, proxy_in, proxy_out, forwarded, received, now,
                   connect_error, error_sent>>
    /\ UNCHANGED cvars
    /\ UNCHANGED <<avars, svars>>

\* asyncssh.connect and conn.create_process(), then the two tasks are
\* created and the handler waits for the first of them.  A refused
\* authentication raises asyncssh.Error; a guest that cannot be reached
\* raises OSError, which only `except Exception` catches.
TermConnect ==
    /\ session = "accepted"
    /\ \/ /\ conn' = "open"
          /\ proxy_in' = "running"
          /\ proxy_out' = "running"
          /\ session' = "pumping"
          /\ connect_error' = connect_error
       \/ /\ connect_error' = "auth"
          /\ session' = "error"
          /\ UNCHANGED <<conn, proxy_in, proxy_out>>
       \/ /\ connect_error' = "unreachable"
          /\ session' = "finally"
          /\ UNCHANGED <<conn, proxy_in, proxy_out>>
    /\ UNCHANGED <<websocket, f_open, log_file, forwarded, received, now,
                   active, error_sent>>
    /\ UNCHANGED cvars
    /\ UNCHANGED <<avars, svars>>

\* except asyncssh.Error: await websocket.send_text(error_msg), which raises
\* when the client has gone
TermSendError ==
    /\ session = "error"
    /\ error_sent' = (websocket = "open")
    /\ session' = "finally"
    /\ UNCHANGED <<websocket, conn, f_open, log_file, proxy_in, proxy_out,
                   forwarded, received, now, active, connect_error>>
    /\ UNCHANGED cvars
    /\ UNCHANGED <<avars, svars>>

\* asyncio.wait(..., return_when=FIRST_COMPLETED) returns; the task that is
\* still pending is left as it is
TermWaitReturns ==
    /\ session = "pumping"
    /\ proxy_in \in Finished \/ proxy_out \in Finished
    /\ session' = "finally"
    /\ UNCHANGED <<websocket, conn, f_open, log_file, proxy_in, proxy_out,
                   forwarded, received, now, active, connect_error, error_sent>>
    /\ UNCHANGED cvars
    /\ UNCHANGED <<avars, svars>>

\* finally: record_ssh_session_change(owner, name, -1), then
\* await websocket.close(), its error swallowed
TermFinally ==
    /\ session = "finally"
    /\ active' = Gauge(active, -1)
    /\ websocket' = IF websocket = "open" THEN "closed" ELSE websocket
    /\ session' = "closing"
    /\ UNCHANGED <<conn, f_open, log_file, proxy_in, proxy_out, forwarded,
                   received, now, connect_error, error_sent>>
    /\ UNCHANGED cvars
    /\ UNCHANGED <<avars, svars>>

\* the `with open(...) as f` block is left: f is closed and the handler
\* returns
TermExit ==
    /\ session = "closing"
    /\ f_open' = FALSE
    /\ session' = "closed"
    /\ UNCHANGED <<websocket, conn, log_file, proxy_in, proxy_out, forwarded,
                   received, now, active, connect_error, error_sent>>
    /\ UNCHANGED cvars
    /\ UNCHANGED <<avars, svars>>

\* _proxy_websocket_to_ssh: iter_text() ends when the channel is gone
ProxyInEnds ==
    /\ proxy_in = "running"
    /\ websocket # "open"
    /\ proxy_in' = "done"
    /\ UNCHANGED <<session, websocket, conn, f_open, log_file, proxy_out,
                   forwarded, received, now, active, connect_error, error_sent>>
    /\ UNCHANGED cvars
    /\ UNCHANGED <<avars, svars>>

\* _proxy_websocket_to_ssh: a message arrives, its record is written
\* (ValueError once f is closed) and it is written to the process's stdin
\* (BrokenPipeError once the remote side has ended); the task then awaits
\* drain()
ProxyInMessage ==
    /\ proxy_in = "running"
    /\ websocket = "open" /\ received["client"] < MaxChunks
    /\ LET k == received["client"] + 1 IN
       /\ received' = [received EXCEPT !["client"] = k]
       /\ IF ~f_open
            THEN /\ proxy_in' = "failed"
                 /\ UNCHANGED <<log_file, forwarded>>
            ELSE /\ log_file' = Append(log_file, Record("client", k))
                 /\ IF conn = "open"
                      THEN /\ forwarded' = forwarded \cup {<<"client", k>>}
                           /\ proxy_in' = "draining"
                      ELSE /\ forwarded' = forwarded
                           /\ proxy_in' = "failed"
    /\ UNCHANGED <<session, websocket, conn, f_open, proxy_out, now, active,
                   connect_error, error_sent>>
    /\ UNCHANGED cvars
    /\ UNCHANGED <<avars, svars>>

\* await ssh_process.stdin.drain() returns: the remote side has taken the
\* input
ProxyInDrained ==
    /\ proxy_in = "draining"
    /\ conn = "open"
    /\ proxy_in' = "running"
    /\ UNCHANGED <<session, websocket, conn, f_open, log_file, proxy_out,
                   forwarded, received, now, active, connect_error, error_sent>>
    /\ UNCHANGED cvars
    /\ UNCHANGED <<avars, svars>>

\* await ssh_process.stdin.drain() raises: the remote side has ended
ProxyInDrainFails ==
    /\ proxy_in = "draining"
    /\ conn # "open"
    /\ proxy_in' = "failed"
    /\ UNCHANGED <<session, websocket, conn, f_open, log_file, proxy_out,
                   forwarded, received, now, active, connect_error, error_sent>>
    /\ UNCHANGED cvars
    /\ UNCHANGED <<avars, svars>>

\* _proxy_ssh_to_websocket: the process's stdout ends
ProxyOutEnds ==
    /\ proxy_out = "running"
    /\ conn # "open"
    /\ proxy_out' = "done"
    /\ UNCHANGED <<session, websocket, conn, f_open, log_file, proxy_in,
                   forwarded, received, now, active, connect_error, error_sent>>
    /\ UNCHANGED cvars
    /\ UNCHANGED <<avars, svars>>

\* _proxy_ssh_to_websocket: data arrives and its record is written
\* (ValueError once f is closed); the task then awaits send_text(data)
ProxyOutData ==
    /\ proxy_out = "running"
    /\ conn = "open" /\ received["remote"] < MaxChunks
    /\ LET k == received["remote"] + 1 IN
       /\ received' = [received EXCEPT !["remote"] = k]
       /\ IF ~f_open
            THEN /\ proxy_out' = "failed"
                 /\ log_file' = log_file
            ELSE /\ log_file' = Append(log_file, Record("remote", k))
                 /\ proxy_out' = "sending"
    /\ UNCHANGED <<session, websocket, conn, f_open, proxy_in, forwarded, now,
                   active, connect_error, error_sent>>
    /\ UNCHANGED cvars
    /\ UNCHANGED <<avars, svars>>

\* await websocket.send_text(data) returns: the client has the data
ProxyOutSent ==
    /\ proxy_out = "sending"
    /\ websocket = "open"
    /\ forwarded' = forwarded \cup {<<"remote", received["remote"]>>}
    /\ proxy_out' = "running"
    /\ UNCHANGED <<session, websocket, conn, f_open, log_file, proxy_in,
                   received, now, active, connect_error, error_sent>>
    /\ UNCHANGED cvars
    /\ UNCHANGED <<avars, svars>>

\* await websocket.send_text(data) raises: the channel is gone
ProxyOutSendFails ==
    /\ proxy_out = "sending"
    /\ websocket # "open"
    /\ proxy_out' = "failed"
    /\ UNCHANGED <<session, websocket, conn, f_open, log_file, proxy_in,
                   forwarded, received, now, active, connect_error, error_sent>>
    /\ UNCHANGED cvars
    /\ UNCHANGED <<avars, svars>>

\* one step of _proxy_websocket_to_ssh
ProxyIn == ProxyInEnds \/ ProxyInMessage \/ ProxyInDrained \/ ProxyInDrainFails

\* one step of _proxy_ssh_to_websocket
ProxyOut == ProxyOutEnds \/ ProxyOutData \/ ProxyOutSent \/ ProxyOutSendFails

\* The client goes away.
PeerDisconnects ==
    /\ websocket = "open"
    /\ websocket' = "gone"
    /\ UNCHANGED <<session, conn, f_open, log_file, proxy_in, proxy_out,
                   forwarded, received, now, active, connect_error, error_sent>>
    /\ UNCHANGED cvars
    /\ UNCHANGED <<avars, svars>>

\* The remote shell exits, or the guest drops the connection.
RemoteEnds ==
    /\ conn = "open"
    /\ conn' = "eof"
    /\ UNCHANGED <<session, websocket, f_open, log_file, proxy_in, proxy_out,
                   forwarded, received, now, active, connect_error, error_sent>>
    /\ UNCHANGED cvars
    /\ UNCHANGED <<avars, svars>>

\* The wall clock moves on.
Tick ==
    /\ now < MaxTime
    /\ now' = now + 1
    /\ UNCHANGED <<session, websocket, conn, f_open, log_file, proxy_in,
                   proxy_out, forwarded, received, active, connect_error,
                   error_sent>>
    /\ UNCHANGED cvars
    /\ UNCHANGED <<avars, svars>>

\* One terminal session, with its client and its guest.
NextTerm ==
    \/ TermAccept \/ TermConnect \/ TermSendError \/ TermWaitReturns
    \/ TermFinally \/ TermExit
    \/ ProxyIn \/ ProxyOut
    \/ PeerDisconnects \/ RemoteEnds \/ Tick

SpecTerm == Init /\ [][NextTerm]_vars

\* The event loop runs every task and handler that is ready: a step that
\* waits for nothing outside the process is taken.  The steps that wait for
\* the client or the guest (a message arrives, output arrives, the guest
\* takes the input written to it) have no fairness.
SpecTermLive ==
    /\ SpecTerm
    /\ WF_vars(TermConnect) /\ WF_vars(TermSendError)
    /\ WF_vars(TermWaitReturns) /\ WF_vars(TermFinally) /\ WF_vars(TermExit)
    /\ WF_vars(ProxyInEnds) /\ WF_vars(ProxyInDrainFails)
    /\ WF_vars(ProxyOutEnds) /\ WF_vars(ProxyOutSent)
    /\ WF_vars(ProxyOutSendFails)

\* ------------------------------------------------------------ credential store

\* a slip: clear_password leaves a password behind
ClearedStale == "s1"

\* clear_password: cls._password = None
Cleared == None

\* callers that are about to write to the store
Writing == {c \in Callers :
              apc[c] \in {"set_acquire", "set_write", "clear_acquire", "clear_write"}}

\* callers that are about to launch a playbook
Launching == {c \in Callers :
                apc[c] \in {"get_acquire", "get_read", "get_release", "cfg_log"}}

\* POST /ansible/auth: AnsibleAuthManager.set_password(payload.password)
CallSetPassword(c, v) ==
    /\ apc[c] = "idle"
    /\ Len(history) + Cardinality(Writing) < MaxWrites
    /\ apc' = [apc EXCEPT ![c] = "set_acquire"]
    /\ aarg' = [aarg EXCEPT ![c] = v]
    /\ UNCHANGED <<password, lock, become_password, history, aret, launch_log,
                   launch_log_other>>
    /\ UNCHANGED <<cvars, tvars, svars>>

\* POST /ansible/clear: AnsibleAuthManager.clear_password()
CallClearPassword(c) ==
    /\ apc[c] = "idle"
    /\ Len(history) + Cardinality(Writing) < MaxWrites
    /\ apc' = [apc EXCEPT ![c] = "clear_acquire"]
    /\ aarg' = [aarg EXCEPT ![c] = None]
    /\ UNCHANGED <<password, lock, become_password, history, aret, launch_log,
                   launch_log_other>>
    /\ UNCHANGED <<cvars, tvars, svars>>

\* configure_vm_with_ansible(vm_name) is entered; it begins with
\* AnsibleAuthManager.get_password()
CallConfigure(c, n) ==
    /\ apc[c] = "idle"
    /\ Len(launch_log) + Cardinality(Launching) < MaxLaunches
    /\ apc' = [apc EXCEPT ![c] = "get_acquire"]
    /\ aarg' = [aarg EXCEPT ![c] = n]
    /\ UNCHANGED <<password, lock, become_password, history, aret, launch_log,
                   launch_log_other>>
    /\ UNCHANGED <<cvars, tvars, svars>>

\* `with cls._lock:` is entered, once the lock is free
AuthAcquire(c) ==
    /\ apc[c] \in {"set_acquire", "clear_acquire", "get_acquire"}
    /\ lock = "free"
    /\ lock' = c
    /\ apc' = [apc EXCEPT ![c] = CASE apc[c] = "set_acquire" -> "set_write"
                                   [] apc[c] = "clear_acquire" -> "clear_write"
                                   [] OTHER -> "get_read"]
    /\ UNCHANGED <<password, aarg, become_password, history, aret, launch_log,
                   launch_log_other>>
    /\ UNCHANGED <<cvars, tvars, svars>>

\* set_password: cls._password = password
SetWrite(c) ==
    /\ apc[c] = "set_write"
    /\ password' = aarg[c]
    /\ history' = Append(history, [op |-> "set", val |-> aarg[c]])
    /\ apc' = [apc EXCEPT ![c] = "set_release"]
    /\ UNCHANGED <<lock, aarg, become_password, aret, launch_log,
                   launch_log_other>>
    /\ UNCHANGED <<cvars, tvars, svars>>

\* clear_password: cls._password = None
ClearWrite(c) ==
    /\ apc[c] = "clear_write"
    /\ password' = Cleared
    /\ history' = Append(history, [op |-> "clear", val |-> None])
    /\ apc' = [apc EXCEPT ![c] = "clear_release"]
    /\ UNCHANGED <<lock, aarg, become_password, aret, launch_log,
                   launch_log_other>>
    /\ UNCHANGED <<cvars, tvars, svars>>

\* get_password: return cls._password
GetRead(c) ==
    /\ apc[c] = "get_read"
    /\ become_password' = [become_password EXCEPT ![c] = password]
    /\ aret' = [aret EXCEPT ![c] = Len(history)]
    /\ apc' = [apc EXCEPT ![c] = "get_release"]
    /\ UNCHANGED <<password, lock, aarg, history, launch_log, launch_log_other>>
    /\ UNCHANGED <<cvars, tvars, svars>>

\* the `with` block is left: the lock is released; set and clear return to
\* their REST handler, get_password to configure_vm_with_ansible
AuthRelease(c) ==
    /\ apc[c] \in {"set_release", "clear_release", "get_release"}
    /\ lock' = "free"
    /\ IF apc[c] = "get_release"
         THEN /\ apc' = [apc EXCEPT ![c] = "cfg_log"]
              /\ aarg' = aarg
         ELSE /\ apc' = [apc EXCEPT ![c] = "idle"]
              /\ aarg' = [aarg EXCEPT ![c] = None]
    /\ UNCHANGED <<password, become_password, history, aret, launch_log,
                   launch_log_other>>
    /\ UNCHANGED <<cvars, tvars, svars>>

\* one word of a command line
Word(text) == [text |-> text, value |-> ""]

\* cmd: the playbook command without the password
cmd(vm_name) ==
    <<Word("ansible-playbook"), Word("-i"), Word("ANSIBLE_HOSTS_FILE"),
      Word("ANSIBLE_PLAYBOOK"), Word("-e"),
      [text |-> "target_host=", value |-> vm_name]>>

\* extra: the password is handed to Ansible when one is stored
extra(pw) ==
    IF pw # None
      THEN <<Word("-e"), [text |-> "ansible_become_pass=", value |-> pw]>>
      ELSE <<>>

full_cmd(vm_name, pw) == cmd(vm_name) \o extra(pw)

\* a slip: the command line that is run is the one that is logged
LoggedCommandFull(c, full) == full

\* the command line in "[ansible] Running playbook for VM ...": ' '.join(cmd)
LoggedCommand(c, full) == c

\* the event logged when the playbook is launched
LaunchEvent(vm_name, pw) ==
    [vm |-> vm_name, line |-> LoggedCommand(cmd(vm_name), full_cmd(vm_name, pw))]

\* the credential stored in the run that differs from this one only in the
\* stored credential value
OtherCredential(pw) ==
    IF pw = "s1" THEN "s2" ELSE IF pw = "s2" THEN "s1" ELSE pw

\* log_event("[ansible] Running playbook for VM ...")
CfgLog(c) ==
    /\ apc[c] = "cfg_log"
    /\ launch_log' = Append(launch_log, LaunchEvent(aarg[c], become_password[c]))
    /\ launch_log_other' =
         Append(launch_log_other,
                LaunchEvent(aarg[c], OtherCredential(become_password[c])))
    /\ apc' = [apc EXCEPT ![c] = "cfg_run"]
    /\ UNCHANGED <<password, lock, aarg, become_password, history, aret>>
    /\ UNCHANGED <<cvars, tvars, svars>>

\* subprocess.run(full_cmd, ...): ansible-playbook is not installed
\* (FileNotFoundError), the playbook fails (returncode != 0), or it succeeds
CfgRun(c) ==
    /\ apc[c] = "cfg_run"
    /\ \E r \in {"cfg_not_found", "cfg_failed", "cfg_configured"} :
         apc' = [apc EXCEPT ![c] = r]
    /\ UNCHANGED <<password, lock, aarg, become_password, history, aret,
                   launch_log, launch_log_other>>
    /\ UNCHANGED <<cvars, tvars, svars>>

\* configure_vm_with_ansible returns, or raises HTTPException(500)
CfgReturn(c) ==
    /\ apc[c] \in {"cfg_not_found", "cfg_failed", "cfg_configured"}
    /\ apc' = [apc EXCEPT ![c] = "idle"]
    /\ aarg' = [aarg EXCEPT ![c] = None]
    /\ become_password' = [become_password EXCEPT ![c] = None]
    /\ aret' = [aret EXCEPT ![c] = 0]
    /\ UNCHANGED <<password, lock, history, launch_log, launch_log_other>>
    /\ UNCHANGED <<cvars, tvars, svars>>

\* Clients store and clear the password while VMs are being provisioned.
NextCred ==
    \E c \in Callers :
        \/ \E v \in Secrets : CallSetPassword(c, v)
        \/ CallClearPassword(c)
        \/ \E n \in LabNames : CallConfigure(c, n)
        \/ AuthAcquire(c) \/ SetWrite(c) \/ ClearWrite(c) \/ GetRead(c)
        \/ AuthRelease(c) \/ CfgLog(c) \/ CfgRun(c) \/ CfgReturn(c)

SpecCred == Init /\ [][NextCred]_vars

\* ------------------------------------------------------------ status stream

\* the handler has left its loop
Ended == {"ended_disconnect", "ended_error"}

\* a slip: sending to a client that has gone does not raise
SendNeverRaises(ws) == FALSE

\* websocket.send_text raises once the client has gone
SendRaises(ws) == ws # "open"

\* `except Exception`: log_event("[ws-status] Error ..."), and the handler
\* goes on to close the channel
StatusError ==
    /\ status_log' = Append(status_log, "error")
    /\ stream' = "closing"

\* await websocket.accept(); log_event("[ws-status] Client connected ...")
StatusAccept ==
    /\ stream = "none"
    /\ status_ws' = "open"
    /\ status_log' = Append(status_log, "connected")
    /\ stream' = "get_state"
    /\ pushed' = pushed
    /\ UNCHANGED <<cvars, tvars, avars>>

\* state = vm_controller.get_vm_state(name): HTTPException(404) when the
\* domain does not exist, libvirtError when info() fails
StatusGetState ==
    /\ stream = "get_state"
    /\ \/ /\ Exists("lab1")
          /\ stream' = "send"
          /\ status_log' = status_log
       \/ /\ ~Exists("lab1")
          /\ StatusError
       \/ /\ Exists("lab1")
          /\ StatusError
    /\ UNCHANGED <<status_ws, pushed>>
    /\ UNCHANGED <<cvars, tvars, avars>>

\* await websocket.send_text(json.dumps(state)); once the client has gone it
\* raises WebSocketDisconnect, which is logged, or another exception
StatusSend ==
    /\ stream = "send"
    /\ IF SendRaises(status_ws)
         THEN /\ \/ /\ status_log' = Append(status_log, "disconnected")
                    /\ stream' = "ended_disconnect"
                 \/ StatusError
              /\ pushed' = pushed
         ELSE /\ pushed < MaxPush
              /\ pushed' = pushed + 1
              /\ stream' = "sleep"
              /\ status_log' = status_log
    /\ status_ws' = status_ws
    /\ UNCHANGED <<cvars, tvars, avars>>

\* await asyncio.sleep(1.0)
StatusSleep ==
    /\ stream = "sleep"
    /\ stream' = "get_state"
    /\ UNCHANGED <<status_ws, pushed, status_log>>
    /\ UNCHANGED <<cvars, tvars, avars>>

\* await websocket.close() in `except Exception`; on a channel that has gone
\* it raises and the handler ends with that exception
StatusClose ==
    /\ stream = "closing"
    /\ status_ws' = IF status_ws = "open" THEN "closed" ELSE status_ws
    /\ stream' = "ended_error"
    /\ UNCHANGED <<pushed, status_log>>
    /\ UNCHANGED <<cvars, tvars, avars>>

\* The client of the status stream goes away.
StatusPeerDisconnects ==
    /\ status_ws = "open"
    /\ status_ws' = "gone"
    /\ UNCHANGED <<stream, pushed, status_log>>
    /\ UNCHANGED <<cvars, tvars, avars>>

\* one step of vm_status_stream
StatusStep ==
    StatusAccept \/ StatusGetState \/ StatusSend \/ StatusSleep \/ StatusClose

\* A client watches lab1, which is running, while the domain changes state
\* or is deleted out of band.
NextStatus ==
    \/ StatusStep
    \/ StatusPeerDisconnects
    \/ \E st \in PowerStates : External("lab1", st)
    \/ ExternalDelete("lab1")

SpecStatus == InitConcStop /\ [][NextStatus]_vars

\* The event loop runs the handler whenever it is ready.
SpecStatusLive == SpecStatus /\ WF_vars(StatusStep)

\* ------------------------------------------------------------ claims on stop

StopCalls == {"snapshot", "shutdown", "destroy"}

\* a request o of thread t has been answered
Answered(t, o) == Idle(t) /\ op[t] = o /\ result[t] # NONE

\* C1: a stop that directly follows a successful stop of the same VM, with
\* nothing else touching the VM, returns successfully and issues no snapshot,
\* no graceful shutdown and no forced destroy.
StopTwice ==
    \A t \in Threads :
        Answered(t, "stop") /\ after[t]
            => result[t] = OK /\ issued[t] \cap StopCalls = {}

\* The part of C1 the code keeps: when the hypervisor answers the state read
\* of the second stop and the domain is still there, that stop is a no-op.
StopTwiceNoOp ==
    \A t \in Threads :
        Answered(t, "stop") /\ after[t]
            => /\ issued[t] = {}
               /\ result[t] \in {OK, E500Inspect, E404}
               /\ result[t] = E404 => ~Exists(name[t])

StopFailsOnlyOnDestroy ==
    \A t \in Threads :
        Answered(t, "stop") /\ result[t] \in HypervisorErrors
            => result[t] = E500ForceStop /\ "destroy" \in issued[t]

\* C10: a failed snapshot or a failed graceful-shutdown request neither
\* reaches the caller nor ends stop_vm: the snapshot step always hands over to
\* the shutdown request and the shutdown request to the polling loop, which
\* is left only by a poll that sees ShutOff, by a poll that cannot read the
\* state, or, once timeout_sec has been waited, towards the forced destroy.
StopBestEffort ==
    [][\A t \in Threads :
          /\ pc[t] = "stop_snapshot" /\ pc'[t] # pc[t]
                => pc'[t] = "stop_shutdown" /\ result'[t] = NONE
          /\ pc[t] = "stop_shutdown" /\ pc'[t] # pc[t]
                => pc'[t] = "stop_poll" /\ result'[t] = NONE
          /\ pc[t] = "stop_poll" /\ pc'[t] = "idle" /\ ctx[t] = "api"
                => \/ result'[t] = OK /\ seen'[t] = VIR_DOMAIN_SHUTOFF
                   \/ result'[t] = E500InspectPoll
          /\ pc[t] = "stop_poll" /\ pc'[t] \notin {"idle", "stop_poll"}
                /\ ctx[t] = "api"
                => pc'[t] = "stop_destroy" /\ waited'[t] = timeout_sec
      ]_vars

\* C10 witness: snapshot and shutdown request both failed, and stop went on
\* to poll and to force the power-off.
StopBestEffortSeen ==
    \E t \in Threads :
        /\ Answered(t, "stop") /\ result[t] = OK
        /\ {"snapshot failed", "shutdown failed", "destroy"} \subseteq issued[t]

\* the positions of a thread inside stop_vm
StopPcs ==
    {"stop_lookup", "stop_info", "stop_snapshot", "stop_shutdown", "stop_poll",
     "stop_destroy"}

CreateTwiceRefused ==
    [][\A t \in Threads :
          pc[t] = "create_exists" /\ Exists(name[t]) /\ pc'[t] # pc[t]
              => /\ ctx[t] = "api" => pc'[t] = "idle" /\ result'[t] = E400Exists
                 /\ pc'[t] \notin {"create_clone", "create_define", "create_start"}
                 /\ issued'[t] = issued[t]
                 /\ dom' = dom /\ disk' = disk
      ]_vars

\* C3 witness: a create was refused while the domain and its disk existed.
CreateTwiceRefusedSeen ==
    \E t \in Threads :
        /\ Answered(t, "create") /\ result[t] = E400Exists
        /\ issued[t] = {}
        /\ Exists(name[t]) /\ disk[name[t]]

\* C16: create_vm fails with a provisioning error when the base image is
\* missing, when there is a disk image at the destination already, and when
\* the copy fails; in each case nothing is defined or powered on, and an
\* image that was at the destination is not copied over.
CloneFailureDefinesNothing ==
    [][\A t \in Threads :
          pc[t] = "create_clone" /\ pc'[t] # pc[t]
              => /\ dom' = dom
                 /\ issued'[t] \cap {"define", "poweron"} = {}
                 /\ ~base \/ disk[name[t]]
                        => /\ disk' = disk /\ issued'[t] = {}
                           /\ pc'[t] \notin {"create_define", "create_start"}
                 /\ ctx[t] = "api"
                        => /\ ~base => result'[t] = E500Base
                           /\ base /\ disk[name[t]] => result'[t] = E400Image
                           /\ base /\ ~disk[name[t]]
                                  => \/ pc'[t] = "create_define" /\ disk'[name[t]]
                                     \/ result'[t] = E500Copy
                           /\ pc'[t] # "create_define"
                                  => /\ pc'[t] = "idle"
                                     /\ result'[t] \in ProvisioningErrors
      ]_vars

\* C16 witness: a create was refused because of an image at the
\* destination, which is still there, and no domain was defined.
CloneFailureDefinesNothingSeen ==
    \E t \in Threads :
        /\ Answered(t, "create") /\ result[t] = E400Image
        /\ issued[t] = {} /\ base
        /\ disk[name[t]] /\ ~Exists(name[t])

\* C17: when the configuration of the guest fails after create_vm has
\* succeeded, the create endpoint leaves domain and disk image as they are
\* and still answers "created", with the failure in the answer.
AnsibleFailureStillCreated ==
    [][\A t \in Threads :
          pc[t] = "create_ansible" /\ pc'[t] # pc[t]
              => /\ dom' = dom /\ disk' = disk
                 /\ result'[t] \in {OK, CreatedWithAnsibleError}
                 /\ "ansible failed" \in issued'[t]
                        <=> result'[t] = CreatedWithAnsibleError
      ]_vars

\* C4 (its clause on failed creates): a create_vm that fails at the domain
\* definition or at the power-on leaves no disk image and no domain; domain
\* and disk image are present or absent together.
FailedCreateLeavesNothing ==
    \A t \in Threads :
        Answered(t, "create") /\ result[t] = E500Libvirt
            => ~disk[name[t]] /\ ~Exists(name[t])


\* ------------------------------------------------------------ claims on start

\* C12: start_vm that reads the state Running answers 409 and issues neither
\* a power-on nor a resume, the domain staying as it is (a state read that
\* fails answers 500, equally without touching the domain); a successful
\* create_vm leaves the domain Running and the endpoint's configuration step
\* leaves it alone, so that a start right after a successful create meets
\* Running.
StartRunningConflict ==
    [][\A t \in Threads :
          /\ pc[t] = "start_info" /\ pc'[t] # pc[t]
              /\ dom[name[t]].present
              /\ dom[name[t]].state = VIR_DOMAIN_RUNNING
              => /\ pc'[t] = "idle"
                 /\ result'[t] \in {E409Running, E500Start}
                 /\ seen'[t] = VIR_DOMAIN_RUNNING => result'[t] = E409Running
                 /\ issued'[t] = issued[t] /\ issued[t] = {}
                 /\ dom' = dom
          /\ pc[t] = "create_start" /\ pc'[t] = "create_ansible"
              => /\ dom'[name[t]].present
                 /\ dom'[name[t]].state = VIR_DOMAIN_RUNNING
          /\ pc[t] = "create_ansible" /\ pc'[t] # pc[t]
              => dom' = dom /\ disk' = disk
      ]_vars

\* C12 witness: a start was refused with 409 while the VM was Running, and
\* nothing was issued.
StartRunningConflictSeen ==
    \E t \in Threads :
        /\ Answered(t, "start") /\ result[t] = E409Running
        /\ seen[t] = VIR_DOMAIN_RUNNING /\ issued[t] = {}
        /\ dom[name[t]].state = VIR_DOMAIN_RUNNING

\* C13: start_vm answers 404 when the domain does not exist; on the state it
\* reads it goes to resume for Paused and to power-on for every state other
\* than Running and Paused; the resume branch issues a resume and no
\* power-on, the power-on branch a power-on and no resume.
StartDispatch ==
    [][\A t \in Threads :
          /\ pc[t] = "start_lookup" /\ pc'[t] # pc[t]
              => IF Exists(name[t])
                   THEN pc'[t] = "start_info"
                   ELSE pc'[t] = "idle" /\ result'[t] = E404 /\ dom' = dom
          /\ pc[t] = "start_info" /\ pc'[t] # pc[t] /\ seen'[t] # -1
              => /\ seen'[t] = dom[name[t]].state
                 /\ seen'[t] = VIR_DOMAIN_PAUSED => pc'[t] = "start_resume"
                 /\ seen'[t] \in PowerStates \
                               {VIR_DOMAIN_RUNNING, VIR_DOMAIN_PAUSED}
                        => pc'[t] = "start_create"
                 /\ dom' = dom /\ issued'[t] = {}
          /\ pc[t] = "start_resume" /\ pc'[t] # pc[t]
              => /\ issued'[t] = {"resume"} /\ pc'[t] = "idle"
                 /\ seen[t] = VIR_DOMAIN_PAUSED
          /\ pc[t] = "start_create" /\ pc'[t] # pc[t]
              => /\ issued'[t] = {"poweron"} /\ pc'[t] = "idle"
                 /\ seen[t] \notin {VIR_DOMAIN_RUNNING, VIR_DOMAIN_PAUSED}
      ]_vars

\* C13 witness: a start that read ShuttingDown issued the power-on and
\* nothing else.
StartDispatchSeen ==
    \E t \in Threads :
        /\ Answered(t, "start")
        /\ seen[t] = VIR_DOMAIN_SHUTDOWN /\ issued[t] = {"poweron"}

\* ------------------------------------------------------------ claims on delete

\* C14: delete_vm of a name that has no domain answers 404 and touches
\* neither a domain nor a disk image, an orphaned image of that name
\* included.
DeleteMissingTouchesNothing ==
    [][\A t \in Threads :
          pc[t] = "delete_lookup" /\ pc'[t] # pc[t] /\ ~Exists(name[t])
              => /\ pc'[t] = "idle" /\ result'[t] = E404
                 /\ issued'[t] = {}
                 /\ dom' = dom /\ disk' = disk
      ]_vars

\* C14 witness: a delete was answered 404 while an orphaned disk image of
\* that name was, and stayed, in storage.
DeleteMissingTouchesNothingSeen ==
    \E t \in Threads :
        /\ Answered(t, "delete") /\ result[t] = E404
        /\ issued[t] = {}
        /\ ~Exists(name[t]) /\ disk[name[t]]

\* C15: delete_vm goes on to the removal of the disk image whether or not
\* the undefine succeeded, and answers a hypervisor error when it failed.
DeleteRemovesDiskRegardless ==
    [][\A t \in Threads :
          pc[t] = "delete_undefine" /\ pc'[t] # pc[t]
              => /\ pc'[t] = "delete_rmdisk"
                 /\ dom'[name[t]] = dom[name[t]] /\ ctx[t] = "api"
                        => result'[t] \in HypervisorErrors
      ]_vars

\* ------------------------------------------------------------ claims on the terminal

\* C18: once the session is closed, neither pump is still running and the
\* upstream SSH connection has been closed.
ClosedReleasesAll ==
    session = "closed"
        => /\ proxy_in \in Finished \cup {"none"}
           /\ proxy_out \in Finished \cup {"none"}
           /\ conn \in {"none", "closed"}

\* the chunks of source src that have a record with marker m
Recorded(src, m) ==
    {log_file[i].chunk : i \in {j \in 1 .. Len(log_file) :
        log_file[j].marker = m /\ log_file[j].chunk[1] = src}}

\* C19: every chunk that has been forwarded has its record in the
\* recording, marked "i" when it came from the client and "o" when it came
\* from the remote side, and no record carries the other side's marker.
RecordedBeforeForwarded ==
    /\ \A c \in forwarded :
          /\ c[1] = "client" => c \in Recorded("client", "i")
          /\ c[1] = "remote" => c \in Recorded("remote", "o")
    /\ Recorded("client", "o") = {} /\ Recorded("remote", "i") = {}

\* C19 witness: chunks were forwarded in both directions.
RecordedBeforeForwardedSeen ==
    /\ <<"client", 1>> \in forwarded
    /\ <<"remote", MaxChunks>> \in forwarded
    /\ session = "closed"

\* C20: when the session is closed, each direction has as many records as
\* chunks that were forwarded.
RecordsMatchForwarded ==
    session = "closed"
        => /\ Cardinality(Recorded("client", "i"))
                = Cardinality({c \in forwarded : c[1] = "client"})
           /\ Cardinality(Recorded("remote", "o"))
                = Cardinality({c \in forwarded : c[1] = "remote"})

\* C21: the recording is one header record followed by event records, and the
\* timestamps of the event records never decrease in file order, however the
\* two pumps interleave.
TimestampsOrdered ==
    log_file # <<>>
        => /\ log_file[1].marker = "h"
           /\ \A i \in 2 .. Len(log_file) :
                /\ log_file[i].marker \in {"i", "o"}
                /\ log_file[i - 1].ts <= log_file[i].ts

\* C21 witness: both pumps wrote records, alternately, while the clock moved
TimestampsOrderedSeen ==
    /\ Len(log_file) >= 4
    /\ log_file[2].marker = "o" /\ log_file[3].marker = "i"
    /\ log_file[4].marker = "o"
    /\ log_file[1].ts < log_file[2].ts
    /\ log_file[3].ts < log_file[4].ts

\* C22: a session whose upstream connection could not be opened has sent the
\* failure to its client by the time the handler has closed the channel.
ConnectFailureReported ==
    (session = "closed" /\ connect_error # "none" /\ websocket = "closed")
        => error_sent

\* C23: a session that has ended, on whatever path, has its recording file
\* closed and has taken back its increment of the active-session counter.
SessionsDestroyed ==
    session \in {"closed", "crashed"} => (active = 0 /\ ~f_open)

\* C24: a streaming session of which a pump has completed, or whose client
\* has disconnected, is eventually closed.
StreamingEventuallyClosed ==
    (session = "pumping"
        /\ (proxy_in \in Finished \/ proxy_out \in Finished \/ websocket = "gone"))
    ~> (session = "closed")

\* ------------------------------------------------------------ claims on the credential

\* the value of the most recent set not followed by a clear, once the first
\* k writes of h have taken effect
ValueAfter(h, k) ==
    IF k = 0 THEN None
    ELSE IF h[k].op = "set" THEN h[k].val ELSE None

\* the positions of a provisioning step
CfgPcs == {"get_acquire", "get_read", "get_release", "cfg_log", "cfg_run",
           "cfg_not_found", "cfg_failed", "cfg_configured"}

\* C25: the store holds one value, which is that of the most recent set not
\* followed by a clear; get_password returns that value as of the moment it
\* reads; and no step of a provisioning run changes the store.
CredentialIsRegister ==
    /\ [](/\ password \in Secrets \cup {None}
          /\ password = ValueAfter(history, Len(history))
          /\ \A c \in Callers :
               apc[c] \in {"get_release", "cfg_log", "cfg_run"}
                   => become_password[c] = ValueAfter(history, aret[c]))
    /\ [][\A c \in Callers :
            (apc'[c] # apc[c] /\ (apc[c] \in CfgPcs \/ apc'[c] \in CfgPcs))
                => password' = password /\ history' = history]_vars

\* C25 witness: a provisioning run has read the password of the latest set
\* while it was being replaced, after an earlier password had been cleared
CredentialIsRegisterSeen ==
    \E c \in Callers, d \in Callers :
        /\ apc[c] = "cfg_log" /\ become_password[c] = "s2"
        /\ Len(history) = 3 /\ aret[c] = 2
        /\ history[1].op = "clear" /\ history[3].op = "clear"
        /\ apc[d] = "clear_release"

\* C26: the events logged at the launch of the playbook are the same in the
\* run that has the other credential stored, and no logged command line
\* holds a password.
SecretNotLogged ==
    /\ launch_log = launch_log_other
    /\ \A i \in 1 .. Len(launch_log) :
         \A j \in 1 .. Len(launch_log[i].line) :
            launch_log[i].line[j].value \notin Secrets

\* C26 witness: a playbook has been launched with a stored password
SecretNotLoggedSeen ==
    \E c \in Callers :
        /\ apc[c] = "cfg_run"
        /\ become_password[c] \in Secrets
        /\ launch_log # <<>>
        /\ full_cmd(aarg[c], become_password[c]) # cmd(aarg[c])

\* ------------------------------------------------------------ claims on the status stream

\* C27: the loop pushes only while the channel is open; nothing is pushed
\* once the client has gone or the loop has ended; a missing VM, like any
\* other error, is logged and then the channel is closed; and the loop ends
\* once the client has gone or an error has occurred.
StatusStreamStops ==
    /\ [][/\ pushed' # pushed
               => (pushed' = pushed + 1 /\ stream = "send" /\ status_ws = "open")
          /\ status_ws # "open" => pushed' = pushed
          /\ stream \in Ended => (stream' = stream /\ pushed' = pushed)
          /\ (stream = "get_state" /\ ~Exists("lab1") /\ stream' # stream)
               => stream' = "closing"
          /\ (stream' = "closing" /\ stream # "closing")
               => status_log' = Append(status_log, "error")
          /\ (stream' = "ended_error" /\ stream # "ended_error")
               => (stream = "closing" /\ status_ws' # "open")
          /\ (stream' = "ended_disconnect" /\ stream # "ended_disconnect")
               => (status_ws = "gone" /\ status_ws' = "gone")
         ]_vars
    /\ (status_ws = "gone") ~> (stream \in Ended)
    /\ (stream = "closing") ~> (stream = "ended_error")

\* C27 witness: the state was pushed repeatedly, then the VM was deleted and
\* the handler logged the error and closed the channel
StatusStreamStopsSeen ==
    /\ pushed = MaxPush
    /\ ~Exists("lab1")
    /\ stream = "ended_error"
    /\ status_ws = "closed"
    /\ status_log = <<"connected", "error">>

\* ------------------------------------------------------------ claims on concurrency

\* C5: of two concurrent stops of a VM that does not shut down gracefully, at
\* most one issues the forced destroy.
OneForcedDestroy ==
    Cardinality({t \in Threads : op[t] = "stop" /\ "destroy" \in issued[t]}) <= 1

\* thread t, serving get_available_vm, is inside the sequence of
\* _ensure_pool_vm_exists_and_stopped (lookup, orphan removal, create_vm,
\* stop_vm) on the slot name[t]
InSlot(t) ==
    /\ op[t] = "allocate"
    /\ pc[t] \in {"en_lookup", "en_info", "en_shutdown", "en_destroy", "en_rmdisk",
                  "create_exists", "create_clone", "create_define", "create_start",
                  "stop_lookup", "stop_info", "stop_snapshot", "stop_shutdown",
                  "stop_poll", "stop_destroy"}

\* C8: two concurrent get_available_vm calls are never at work on the same
\* slot at the same time.
NoSlotOverlap ==
    \A t, u \in Threads :
        t # u /\ InSlot(t) /\ InSlot(u) => name[t] # name[u]

\* ------------------------------------------------------------ claims on the pool

\* C6: get_available_vm returns None only if the attempt on every one of the
\* slots pool-vm-1..N raised, whatever happened at startup.
NoneOnlyIfAllRaised ==
    \A t \in Threads :
        Answered(t, "allocate") /\ result[t] = E503NoVm
            => failed[t] = PoolNames

\* C7: when get_available_vm hands out a slot whose domain it found, the
\* domain is ShutOff at the moment of the return.
HandedOutShutOff ==
    [][\A t \in Threads :
          /\ pc[t] \in {"ga_info", "ga_shutdown", "ga_destroy"}
          /\ pc'[t] = "idle" /\ result'[t] = OK
          => /\ dom'[name[t]].present
             /\ dom'[name[t]].state = VIR_DOMAIN_SHUTOFF
      ]_vars

\* C28: once the service has started, the slots that allocation scans and
\* the status report lists are pool-vm-1..N.
PoolHoldsAllSlots ==
    Started => {pool[i] : i \in 1 .. Len(pool)} = PoolNames

\* the positions of get_available_vm outside the reconciliation it calls
GaPcs == {"ga_start", "ga_lookup", "ga_info", "ga_shutdown", "ga_destroy"}

\* C29: a reconciliation that found its slot's domain missing and succeeds
\* has called create_vm with the default sizing and owner pool and then
\* stop_vm, and leaves the domain defined, ShutOff and with a disk image;
\* while it works on a slot, get_available_vm changes nothing of any other
\* slot, and it leaves a slot for the next only when the attempt on it raised.
ReconcileMissingSlot ==
    [][\A t \in Threads :
          (op[t] = "allocate" /\ ~Idle(t) /\ pc'[t] # pc[t])
          => /\ (pc[t] \notin GaPcs /\ pc'[t] = "idle" /\ result'[t] = OK)
                  => /\ pc[t] \in StopPcs
                     /\ dom'[name[t]].present
                     /\ dom'[name[t]].persistent
                     /\ dom'[name[t]].state = VIR_DOMAIN_SHUTOFF
                     /\ disk'[name[t]]
                     /\ {CreatePoolVm, "define", "poweron"} \subseteq issued'[t]
             /\ \A n \in Names \ {name[t]} :
                  dom'[n] = dom[n] /\ disk'[n] = disk[n]
             /\ (idx[t] > 0 /\ idx'[t] # idx[t]) => name[t] \in failed'[t]
             /\ (pc'[t] = "idle" /\ result'[t] # OK) =>
                  failed'[t] = {pool[i] : i \in 1 .. Len(pool)}
      ]_vars

\* C29 witness: with both pool VMs undefined and their disks deleted, the
\* allocation has recreated pool-vm-1 and returned it, and pool-vm-2 is as
\* it was
ReconcileMissingSlotSeen ==
    /\ Answered("t1", "allocate") /\ result["t1"] = OK
    /\ name["t1"] = PoolName(1) /\ failed["t1"] = {}
    /\ "rmdisk" \notin issued["t1"] /\ CreatePoolVm \in issued["t1"]
    /\ dom[PoolName(1)].state = VIR_DOMAIN_SHUTOFF /\ disk[PoolName(1)]
    /\ \A i \in 2 .. HOT_VM_POOL_SIZE :
         ~dom[PoolName(i)].present /\ ~disk[PoolName(i)]

\* C30: reconciliation of a slot whose domain exists and is ShutOff issues
\* no call and leaves the disk image alone.
ShutOffSlotLeftAlone ==
    [][\A t \in Threads :
          (/\ pc[t] \in {"en_info", "en_rmdisk"} /\ pc'[t] # pc[t]
           /\ Exists(name[t])
           /\ dom[name[t]].state = VIR_DOMAIN_SHUTOFF
           /\ issued[t] = {})
          => (issued'[t] = {} /\ disk' = disk)
      ]_vars

\* ------------------------------------------------------------ claims on behaviour

\* C31: when delete_vm returns successfully, no domain of that name is left
\* to be looked up and no disk image is left at the VM's path.
DeleteLeavesNothing ==
    [][\A t \in Threads :
          (op[t] = "delete" /\ ~Idle(t) /\ pc'[t] = "idle" /\ result'[t] = OK)
              => (~dom'[name[t]].present /\ ~disk'[name[t]])
      ]_vars

\* C32: stop_vm issues the forced destroy only against a domain that is not
\* ShutOff at that moment; against a ShutOff domain it returns successfully
\* without a destroy.
DestroyOnlyIfNotShutOff ==
    [][\A t \in Threads :
          (/\ op[t] = "stop" /\ pc[t] = "stop_destroy" /\ pc'[t] # pc[t]
           /\ dom[name[t]].present
           /\ dom[name[t]].state = VIR_DOMAIN_SHUTOFF)
              => ("destroy" \notin issued'[t] /\ result'[t] = OK)
      ]_vars

\* a getAvailable request of thread t has returned a slot name
Allocated(t) == op[t] = "allocate" /\ Idle(t) /\ result[t] = OK

\* C33 (as stated): two getAvailable calls with no hypervisor change in
\* between return the same slot name.
SameSlotTwice ==
    (Allocated("t1") /\ Allocated("t2")) => name["t1"] = name["t2"]

\* C33 (amended): get_available_vm scans the slots in ascending order and
\* returns slot k only when the attempt on every earlier slot raised; it never
\* changes the slot list, and two calls in which the attempts on the same
\* earlier slots raised return the same slot name.
ScanReturnsFirstUsable ==
    [][/\ pool' = pool
       /\ \A t \in Threads :
             (op[t] = "allocate" /\ ~Idle(t) /\ pc'[t] = "idle" /\ result'[t] = OK)
                 => /\ idx'[t] \in 1 .. Len(pool)
                    /\ name'[t] = pool[idx'[t]]
                    /\ failed'[t] = {pool[i] : i \in 1 .. (idx'[t] - 1)}
       /\ (Allocated("t1") /\ Allocated("t2") /\ failed["t1"] = failed["t2"])'
             => name'["t1"] = name'["t2"]
      ]_vars

\* both calls skipped pool-vm-1, whose attempt raised, and returned pool-vm-2
ScanReturnsFirstUsableSeen ==
    /\ Allocated("t1") /\ Allocated("t2")
    /\ failed["t1"] = {PoolName(1)} /\ failed["t2"] = {PoolName(1)}
    /\ name["t1"] = PoolName(2) /\ name["t2"] = PoolName(2)

====
